---- MODULE Spec2Model ----
(***************************************************************************)
(* ADS-B data logger (src/adsb_logger.py): the TTL cache, the circuit      *)
(* breaker, the aircraft registry cache, the database manager and the      *)
(* ingest / cache / commit loop of ADSBLogger.run.                         *)
(*                                                                         *)
(* Time is a discrete clock `now` standing for time.time().  It starts at  *)
(* 1, so that a recorded time is never 0: Python's None (and its           *)
(* truthiness test `if self.last_failure_time`) is modelled by 0.          *)
(* The loop is one thread: within a cycle the clock advances only where    *)
(* the code sleeps (RETRY_DELAY between upload attempts, the sliced sleep  *)
(* between cycles).  The configuration values are the environment-set      *)
(* ones of Configuration.__init__, taken small.                            *)
(* Six specifications share the variables: SpecCache drives one           *)
(* TTLCache through its public operations, SpecBreaker drives one          *)
(* CircuitBreaker from concurrent threads, Spec is the logger's main loop  *)
(* while no signal arrives and nothing unexpected is raised, SpecLifecycle *)
(* is the loop with the termination signal, the unexpected exceptions and  *)
(* the final upload, SpecStore runs database_operation inside              *)
(* get_connection with every statement able to fail, SpecRegistry drives   *)
(* one AircraftRegistryCache from concurrent threads.                      *)
(***************************************************************************)
EXTENDS Integers, Sequences, FiniteSets, TLC

VARIABLES
    now,                    \* time.time()
    local_aircraft_cache,   \* TTLCache object: cache, timestamps, max_size, ttl
    lastOp,                 \* (history) last TTLCache operation: its key, the value
                            \* it returned, the keys it removed, and the arguments
                            \* the cache was constructed with
    last_put,               \* (history) time of the last put of each key, 0 = never
    api_circuit_breaker,    \* CircuitBreaker object
    calls,                  \* per thread: "idle", or "func" while the wrapped
                            \* operation runs (outside the breaker's lock)
    lastCall,               \* (history) last breaker event, its thread, the error
                            \* the wrapped operation raised, the one call() raised and the
                            \* breaker state it found
    consecutive_failures,   \* (history) failures of the wrapped operation since
                            \* its last success
    pc,                     \* ADSBLogger.run: "fetch", "merge", "upload", "sleep",
                            \* "final_upload" after the loop, "done" on return
    shutdown_event,         \* threading.Event set by the signal handlers
    all_aircraft,           \* hex codes of the fetched aircraft still to merge
    current_hexes,
    current_time,
    slept,                  \* slices of the sleep between two cycles slept so
                            \* far (the i of line 1445)
    previously_seen_hexes,
    last_summary_upload_time,
    first_scan_complete,
    upload_data,            \* snapshot handed to upload_summary_to_database
    retry_count,
    upload_result,          \* "none" until the upload of this cycle returned
    attempts,               \* (history) executions of database_operation in the
                            \* current call of upload_summary_to_database
    notifications,          \* (history) calls of send_failure_email so far
    tracked_aircraft,       \* the table: hex -> seen_count (0 = no row), first_seen,
                            \* last_seen
    observed,               \* (history) hex codes fetched in this cycle
    observed_before,        \* (history) hex codes fetched in the cycle before
    fetched_before,         \* (history) how the fetch of the cycle before ended:
                            \* the event of lastCall, "init" before the first
    pending,                \* (history) per hex: appearances not yet followed by
                            \* a successful commit of that hex
    merged_since_commit,    \* (history) a merge put something into the cache
                            \* since the last successful commit
    last_seen,              \* (history) per hex: time of the cycle that last
                            \* fetched it, 0 = never
    exceptions,             \* (history) unexpected exceptions raised in the loop
    pool,                   \* DatabaseManager.pool: connections in the pool's queue,
                            \* and (history) those whose close() failed before
                            \* they were put back
    scope,                  \* per thread: its use of get_connection, the batches
                            \* database_operation has still to execute, and
                            \* (history) what the last use did
    work,                   \* the table as the open transaction sees it
    records,                \* records built by upload_summary_to_database
    aircraft_registry_cache,\* AircraftRegistryCache object: aircraft_data,
                            \* last_update_time, _loading, the holder of its
                            \* lock ("" = free) and its csv_circuit_breaker
    lookups,                \* per thread: its call of get_aircraft_info
    last_refresh,           \* (history) the last refresh: its thread, how
                            \* _load_aircraft_csv ended and what it returned
    fetches                 \* (history) invocations of fetch_csv since the last
                            \* one that returned: `closed` before the breaker
                            \* opened, `trials` since, `opened_at` when it opened

cacheVars == <<local_aircraft_cache, lastOp, last_put>>
breakerVars == <<api_circuit_breaker, calls, lastCall, consecutive_failures>>
loopVars == <<pc, all_aircraft, current_hexes, current_time, slept>>
uploadVars == <<last_summary_upload_time, first_scan_complete, upload_data,
                retry_count, upload_result, tracked_aircraft, attempts, notifications>>
historyVars == <<observed, observed_before, fetched_before, pending,
                 merged_since_commit, last_seen, exceptions>>
storeVars == <<pool, scope, work, records>>
registryVars == <<aircraft_registry_cache, lookups, last_refresh, fetches>>
serviceVars == <<storeVars, registryVars>>
runVars == <<loopVars, shutdown_event, previously_seen_hexes, uploadVars, historyVars,
             serviceVars>>
vars == <<now, cacheVars, breakerVars, runVars>>

\* ------------------------------------------------------------------ bounds
MaxTime == 3            \* the clock of SpecCache and SpecBreaker stops here
MaxSizeArg == 3         \* largest max_size handed to TTLCache(...)
MaxTtlArg == 1          \* largest ttl_seconds handed to TTLCache(...)
MaxThresholdArg == 2    \* largest failure_threshold handed to CircuitBreaker(...)
MaxTimeoutArg == 1      \* largest timeout handed to CircuitBreaker(...)
MaxRunTime == 7         \* the clock of Spec stops here
MaxFeed == 2            \* most aircraft in one fetched snapshot
MaxExceptions == 1      \* most unexpected exceptions in one run of SpecLifecycle
MaxLifeSpan == 4        \* SpecLifecycle constructs the logger this long before
                        \* its clock stops
MaxLifeFeed == 1        \* most aircraft in one fetched snapshot of SpecLifecycle
MaxRecords == 2         \* most records in the snapshot SpecStore commits
MaxScopes == 2          \* most uses of get_connection in one run of SpecStore
MaxRegistryTime == 4    \* the clock of SpecRegistry stops here
MaxVersion == 2         \* distinct registry records an aircraft may have

\* config defaults (Configuration.__init__), scaled down
MAX_CACHE_SIZE == 2
CACHE_TTL_SECONDS == 4
CIRCUIT_BREAKER_THRESHOLD == 2
CIRCUIT_BREAKER_TIMEOUT == 2
SUMMARY_UPLOAD_INTERVAL == 6
MAX_RETRY_ATTEMPTS == 2
RETRY_DELAY == 1
\* the 60 one-second slices slept between two cycles
CYCLE_SLEEP == 2
\* the sleep(60) after an unexpected error in the loop
COOLDOWN == 2
DB_POOL_SIZE == 1
AIRCRAFT_CSV_TTL_SECONDS == 2
\* CircuitBreaker(failure_threshold=3, timeout=300) of the registry
CSV_FAILURE_THRESHOLD == 2
CSV_TIMEOUT == 1
BATCH_SIZE == 1

Hexes == {"A", "B", "C", "D"}
Threads == {"t1", "t2"}
\* hex codes the live feed reports
FeedHexes == {"A", "B", "C"}
None == [none |-> TRUE]

\* A cached aircraft dict, reduced to the fields the pipeline computes.
Aircraft(fs, new) == [first_seen |-> fs, is_new_sighting |-> new]
\* SpecCache stores one value: no TTLCache operation reads the value it stores.
CacheValues == {Aircraft(0, FALSE)}

\* ------------------------------------------------------------------ TTLCache
\* OrderedDict self.cache: a sequence of [k, v] in insertion order.
Keys(c) == {c[i].k : i \in 1..Len(c)}
Lookup(c, key) == (CHOOSE i \in 1..Len(c) : c[i].k = key)
ValueOf(c, key) == c[Lookup(c, key)].v

\* OrderedDict.__setitem__: an existing key keeps its position.
SetItem(c, key, value) ==
    IF key \in Keys(c)
    THEN [i \in 1..Len(c) |-> IF c[i].k = key THEN [k |-> key, v |-> value] ELSE c[i]]
    ELSE Append(c, [k |-> key, v |-> value])

\* dict.pop(key, None) for every key of S.
PopAll(c, S) == SelectSeq(c, LAMBDA e : e.k \notin S)
\* Mutant of DropKeys: the timestamps of the popped keys stay behind.
DropKeys_KeepsAll(ts, S) == ts

\* self.timestamps.pop(key, None) for every key of S.
DropKeys(ts, S) == [k \in (DOMAIN ts) \ S |-> ts[k]]
Assign(ts, key, t) == [k \in (DOMAIN ts) \cup {key} |-> IF k = key THEN t ELSE ts[k]]

TTLCacheInit(max_size, ttl_seconds) ==
    [cache |-> <<>>, timestamps |-> [k \in {} |-> 0],
     max_size |-> IF max_size = 0 THEN MAX_CACHE_SIZE ELSE max_size,
     ttl |-> IF ttl_seconds = 0 THEN CACHE_TTL_SECONDS ELSE ttl_seconds]

IsExpired(self, key, t) == t - self.timestamps[key] > self.ttl

ExpiredKeys(self, t) == {k \in DOMAIN self.timestamps : IsExpired(self, k, t)}

\* The inline cleanup shared by cleanup_expired, put, __len__ and items.
Purge(self, t) ==
    [self EXCEPT !.cache = PopAll(self.cache, ExpiredKeys(self, t)),
                 !.timestamps = DropKeys(self.timestamps, ExpiredKeys(self, t))]

\* Mutant of EvictOldest: `>` for `>=`, one entry too many survives.
RECURSIVE EvictOldest_OffByOne(_)
EvictOldest_OffByOne(self) ==
    IF Len(self.cache) > self.max_size
    THEN EvictOldest_OffByOne([self EXCEPT !.cache = Tail(self.cache),
                                           !.timestamps = DropKeys(self.timestamps,
                                                                   {Head(self.cache).k})])
    ELSE self

\* while len(self.cache) >= self.max_size: pop the first key of the OrderedDict
RECURSIVE EvictOldest(_)
EvictOldest(self) ==
    IF Len(self.cache) >= self.max_size /\ Len(self.cache) > 0
    THEN EvictOldest([self EXCEPT !.cache = Tail(self.cache),
                                  !.timestamps = DropKeys(self.timestamps,
                                                          {Head(self.cache).k})])
    ELSE self

put(self, key, value, t) ==
    LET e == EvictOldest(Purge(self, t))
    IN  [e EXCEPT !.cache = SetItem(e.cache, key, value),
                  !.timestamps = Assign(e.timestamps, key, t)]

\* Mutant of get: the expiry check is missing.
get_NoExpiryCheck(self, key, t) ==
    IF key \notin Keys(self.cache)
    THEN [self |-> self, ret |-> None]
    ELSE [self |-> self, ret |-> ValueOf(self.cache, key)]

\* get returns the object after the call and the value returned.
get(self, key, t) ==
    IF key \notin Keys(self.cache)
    THEN [self |-> self, ret |-> None]
    ELSE IF IsExpired(self, key, t)
         THEN [self |-> [self EXCEPT !.cache = PopAll(self.cache, {key}),
                                     !.timestamps = DropKeys(self.timestamps, {key})],
               ret |-> None]
         ELSE [self |-> self, ret |-> ValueOf(self.cache, key)]

cleanup_expired(self, t) ==
    [self |-> Purge(self, t), ret |-> Cardinality(ExpiredKeys(self, t))]

len(self, t) == [self |-> Purge(self, t), ret |-> Len(Purge(self, t).cache)]

\* Mutant of items: only the entries flagged as new sightings are returned.
items_NewSightingsOnly(self, t) ==
    [self |-> Purge(self, t),
     ret |-> SelectSeq(Purge(self, t).cache, LAMBDA e : e.v.is_new_sighting)]

\* dict(self.cache).items(): a snapshot, in insertion order
items(self, t) == [self |-> Purge(self, t), ret |-> Purge(self, t).cache]

clear(self) == [self EXCEPT !.cache = <<>>, !.timestamps = [k \in {} |-> 0]]

\* ------------------------------------------------------------------ clock
Tick ==
    /\ now < MaxTime
    /\ now' = now + 1

\* ------------------------------------------------------------------ CircuitBreaker
CircuitBreakerInit(failure_threshold, timeout) ==
    [failure_threshold |-> IF failure_threshold = 0 THEN CIRCUIT_BREAKER_THRESHOLD
                           ELSE failure_threshold,
     timeout |-> IF timeout = 0 THEN CIRCUIT_BREAKER_TIMEOUT ELSE timeout,
     failure_count |-> 0,
     last_failure_time |-> 0,
     state |-> "CLOSED"]

\* Mutant of call_enter: an OPEN breaker lets the call through as soon as
\* any time has passed since the last failure.
call_enter_IgnoresTimeout(self, t) ==
    IF self.state = "OPEN"
    THEN IF self.last_failure_time # 0 /\ t - self.last_failure_time > 0
         THEN [self |-> [self EXCEPT !.state = "HALF_OPEN"], raised |-> FALSE]
         ELSE [self |-> self, raised |-> TRUE]
    ELSE [self |-> self, raised |-> FALSE]

\* Mutant of call_enter: an OPEN breaker always lets the call through.
call_enter_NoFailFast(self, t) ==
    IF self.state = "OPEN"
    THEN [self |-> [self EXCEPT !.state = "HALF_OPEN"], raised |-> FALSE]
    ELSE [self |-> self, raised |-> FALSE]

\* The locked section that opens call(): `raised` when it raises "Circuit
\* breaker is OPEN" instead of going on to the wrapped operation.
call_enter(self, t) ==
    IF self.state = "OPEN"
    THEN IF self.last_failure_time # 0 /\ t - self.last_failure_time > self.timeout
         THEN [self |-> [self EXCEPT !.state = "HALF_OPEN"], raised |-> FALSE]
         ELSE [self |-> self, raised |-> TRUE]
    ELSE [self |-> self, raised |-> FALSE]

\* Mutant of on_success: the breaker closes, the count is left as it is.
on_success_KeepsCount(self) == [self EXCEPT !.state = "CLOSED"]

\* Mutant of on_success: the count is reset, the state is left as it is.
on_success_KeepsState(self) == [self EXCEPT !.failure_count = 0]

on_success(self) == [self EXCEPT !.failure_count = 0, !.state = "CLOSED"]

\* Mutant of on_failure: the breaker opens only when the count reaches the
\* threshold exactly.
on_failure_OpensAtThresholdOnly(self, t) ==
    [self EXCEPT !.failure_count = self.failure_count + 1,
                 !.last_failure_time = t,
                 !.state = IF self.failure_count + 1 = self.failure_threshold
                           THEN "OPEN" ELSE self.state]

on_failure(self, t) ==
    [self EXCEPT !.failure_count = self.failure_count + 1,
                 !.last_failure_time = t,
                 !.state = IF self.failure_count + 1 >= self.failure_threshold
                           THEN "OPEN" ELSE self.state]

\* ------------------------------------------------------------------ SpecCache
NeverPut == [k \in Hexes |-> 0]

\* The table with no row.
NoRows == [h \in FeedHexes |-> [seen_count |-> 0, first_seen |-> 0, last_seen |-> 0]]

\* ADSBLogger.__init__ at time t: the loop has not started.
RunInit(t) ==
    /\ pc = "fetch"
    /\ all_aircraft = <<>>
    /\ current_hexes = {}
    /\ current_time = t
    /\ slept = 0
    /\ previously_seen_hexes = {}
    /\ last_summary_upload_time = t
    /\ first_scan_complete = FALSE
    /\ upload_data = <<>>
    /\ retry_count = 0
    /\ upload_result = "none"
    /\ observed = {}
    /\ observed_before = {}
    /\ fetched_before = "init"
    /\ pending = [h \in FeedHexes |-> 0]
    /\ merged_since_commit = FALSE
    /\ shutdown_event = FALSE
    /\ attempts = 0
    /\ notifications = 0
    /\ last_seen = [h \in FeedHexes |-> 0]
    /\ exceptions = 0

\* ------------------------------------------------------------------ AircraftRegistryCache
\* Hex codes of the registry, and those a caller may ask for (any case).
RegistryHexes == {"A", "B"}
LookupHexes == {"A", "a", "B"}

\* hex_code.upper()
upper(hex_code) == IF hex_code = "a" THEN "A" ELSE hex_code

\* The dict with no row.
NoData == [h \in {} |-> 0]

\* A registry record; its registration stands for type_code and
\* long_type_name too, 0 for None.
Info(registration) == [registration |-> registration]

\* What _load_aircraft_csv can return: a dict of the usable rows, hex ->
\* record; NoData for empty content or no usable row.
Datasets ==
    UNION {[S -> {Info(v) : v \in 1..MaxVersion}] : S \in SUBSET RegistryHexes}

\* {'registration': None, 'type_code': None, 'long_type_name': None}
NoInfo == Info(0)

AircraftRegistryCacheInit ==
    [aircraft_data |-> NoData, last_update_time |-> 0, loading |-> FALSE, lock |-> "",
     csv_circuit_breaker |-> CircuitBreakerInit(CSV_FAILURE_THRESHOLD, CSV_TIMEOUT)]

\* The refresh condition of get_aircraft_info (lines 907-908).
needs_refresh(self, t) ==
    t - self.last_update_time > AIRCRAFT_CSV_TTL_SECONDS \/ self.aircraft_data = NoData

\* Mutant of refresh: the fetched rows are merged into the map.
refresh_Merges(self, new_data, t) ==
    IF new_data # NoData
    THEN [self EXCEPT !.aircraft_data =
                         [h \in DOMAIN new_data \cup DOMAIN self.aircraft_data |->
                             IF h \in DOMAIN new_data THEN new_data[h]
                             ELSE self.aircraft_data[h]],
                      !.last_update_time = t, !.loading = FALSE]
    ELSE [self EXCEPT !.loading = FALSE]

\* Lines 916-923: `if new_data:` replace the map and stamp it with the time
\* the call started; finally _loading = False.
refresh(self, new_data, t) ==
    IF new_data # NoData
    THEN [self EXCEPT !.aircraft_data = new_data, !.last_update_time = t,
                      !.loading = FALSE]
    ELSE [self EXCEPT !.loading = FALSE]

\* Lines 926-934: the record of the hex, all fields None when it has no row.
lookup(self, hex_code) ==
    IF upper(hex_code) \in DOMAIN self.aircraft_data
    THEN self.aircraft_data[upper(hex_code)] ELSE NoInfo

NoFetches == [closed |-> 0, trials |-> 0, opened_at |-> 0]

LookupIdle == [pc |-> "idle", hex |-> "", current_time |-> 0, ret |-> NoInfo]

\* AircraftRegistryCache() as constructed, no call made.
RegistryIdle ==
    /\ aircraft_registry_cache = AircraftRegistryCacheInit
    /\ lookups = [th \in Threads |-> LookupIdle]
    /\ last_refresh = [thread |-> "", outcome |-> "none", new_data |-> NoData]
    /\ fetches = NoFetches

\* ------------------------------------------------------------------ DatabaseManager
\* DatabaseManager.__init__: the pool holds pool_size connections.
DatabaseManagerInit(pool_size) ==
    [pool_size |-> IF pool_size = 0 THEN DB_POOL_SIZE ELSE pool_size,
     free |-> IF pool_size = 0 THEN DB_POOL_SIZE ELSE pool_size,
     lost |-> 0]

\* No use of get_connection in progress, none made.
ScopeIdle ==
    [pc |-> "idle", conn |-> FALSE, todo |-> <<>>, before |-> NoRows, error |-> "",
     rollback |-> "none", close |-> "none", outcome |-> ""]

\* DatabaseManager(DB_CONFIG) as constructed by ADSBLogger.__init__, no
\* connection borrowed.
StoreIdle ==
    /\ pool = DatabaseManagerInit(0)
    /\ scope = [th \in Threads |-> ScopeIdle]
    /\ work = NoRows
    /\ records = <<>>

ServicesIdle == StoreIdle /\ RegistryIdle

RunIdle == RunInit(1) /\ tracked_aircraft = NoRows /\ ServicesIdle

\* The breaker as constructed by ADSBLogger.__init__, no call made.
BreakerIdle ==
    /\ api_circuit_breaker = CircuitBreakerInit(0, 0)
    /\ calls = [th \in Threads |-> "idle"]
    /\ lastCall = [event |-> "init", thread |-> "", found |-> "CLOSED",
                   error |-> "", propagated |-> ""]
    /\ consecutive_failures = 0

InitCache ==
    /\ now = 1
    /\ \E m \in 0..MaxSizeArg, s \in 0..MaxTtlArg :
           /\ local_aircraft_cache = TTLCacheInit(m, s)
           /\ lastOp = [op |-> "init", key |-> "", ret |-> None, removed |-> {},
                        configured |-> [max_size |-> m, ttl_seconds |-> s]]
    /\ last_put = NeverPut
    /\ BreakerIdle
    /\ RunIdle

\* One public operation of the cache, under its lock: `after` is the object
\* after the call, `ret` the value returned.
CacheOp(op, key, after, ret) ==
    /\ local_aircraft_cache' = after
    /\ lastOp' = [op |-> op, key |-> key, ret |-> ret,
                  removed |-> Keys(local_aircraft_cache.cache) \ Keys(after.cache),
                  configured |-> lastOp.configured]
    /\ UNCHANGED <<now, breakerVars, runVars>>

CachePut(key, value) ==
    /\ CacheOp("put", key, put(local_aircraft_cache, key, value, now), None)
    /\ last_put' = [last_put EXCEPT ![key] = now]

CacheGet(key) ==
    /\ CacheOp("get", key, get(local_aircraft_cache, key, now).self,
               get(local_aircraft_cache, key, now).ret)
    /\ UNCHANGED last_put

CacheLen ==
    /\ CacheOp("len", "", len(local_aircraft_cache, now).self,
               len(local_aircraft_cache, now).ret)
    /\ UNCHANGED last_put

CacheItems ==
    /\ CacheOp("items", "", items(local_aircraft_cache, now).self,
               items(local_aircraft_cache, now).ret)
    /\ UNCHANGED last_put

CacheCleanup ==
    /\ CacheOp("cleanup_expired", "", cleanup_expired(local_aircraft_cache, now).self,
               cleanup_expired(local_aircraft_cache, now).ret)
    /\ UNCHANGED last_put

CacheClear ==
    /\ CacheOp("clear", "", clear(local_aircraft_cache), None)
    /\ UNCHANGED last_put

CacheTick ==
    /\ Tick
    /\ lastOp' = [op |-> "tick", key |-> "", ret |-> None, removed |-> {},
                  configured |-> lastOp.configured]
    /\ UNCHANGED <<local_aircraft_cache, last_put, breakerVars, runVars>>

NextCache ==
    \/ \E key \in Hexes, value \in CacheValues : CachePut(key, value)
    \/ \E key \in Hexes : CacheGet(key)
    \/ CacheLen
    \/ CacheItems
    \/ CacheCleanup
    \/ CacheClear
    \/ CacheTick

SpecCache == InitCache /\ [][NextCache]_vars

\* ------------------------------------------------------------------ TTLCache claims
Cache == local_aircraft_cache.cache
Timestamps == local_aircraft_cache.timestamps

\* More than TTL has elapsed since the last put of key.
ExpiredSincePut(key) ==
    last_put[key] # 0 /\ now - last_put[key] > local_aircraft_cache.ttl

\* C5: immediately after every put the cache holds at most max_size entries
\* and the key just put is present.
C5_CapacityAfterPut ==
    lastOp.op = "put" =>
        /\ Len(Cache) <= local_aircraft_cache.max_size
        /\ lastOp.key \in Keys(Cache)
        /\ lastOp.key \in DOMAIN Timestamps

\* A put into a full cache of the largest capacity evicted an entry.
C5_Witness ==
    /\ lastOp.op = "put"
    /\ local_aircraft_cache.max_size = MaxSizeArg
    /\ Len(Cache) = MaxSizeArg
    /\ lastOp.removed # {}

\* C6 (as claimed): a put of an absent key into a cache holding max_size
\* unexpired entries evicts exactly the oldest-inserted entry and appends the
\* new one; a put of a key that is cached and unexpired refreshes its timestamp
\* and leaves it where it was in the eviction order.
C6_EvictionOrder ==
    [][\A key \in Hexes :
        (lastOp'.op = "put" /\ lastOp'.key = key
           /\ \A k \in Keys(Cache) : ~ExpiredSincePut(k)) =>
          /\ (key \notin Keys(Cache) /\ Len(Cache) = local_aircraft_cache.max_size) =>
                 /\ lastOp'.removed = {Head(Cache).k}
                 /\ Keys(Cache') = (Keys(Cache) \ {Head(Cache).k}) \cup {key}
                 /\ Cache'[Len(Cache')].k = key
          /\ key \in Keys(Cache) =>
                 /\ Timestamps'[key] = now
                 /\ \A k \in Keys(Cache') \ {key} :
                        (Lookup(Cache, k) < Lookup(Cache, key))
                            <=> (Lookup(Cache', k) < Lookup(Cache', key))
      ]_vars

\* C7: get of a key whose last put is more than TTL ago returns None and
\* removes the key from cache and timestamps; len and items purge every such
\* key before counting or snapshotting.
C7_NoExpiredRead ==
    /\ (lastOp.op = "get" /\ ExpiredSincePut(lastOp.key)) =>
          /\ lastOp.ret = None
          /\ lastOp.key \notin Keys(Cache)
          /\ lastOp.key \notin DOMAIN Timestamps
    /\ lastOp.op \in {"len", "items"} =>
          /\ \A k \in Hexes :
                ExpiredSincePut(k) => k \notin Keys(Cache) /\ k \notin DOMAIN Timestamps
          /\ lastOp.op = "len" => lastOp.ret = Len(Cache)
          /\ lastOp.op = "items" => lastOp.ret = Cache

\* A get physically removed an expired entry.
C7_Witness ==
    /\ lastOp.op = "get"
    /\ ExpiredSincePut(lastOp.key)
    /\ lastOp.removed = {lastOp.key}
    /\ lastOp.ret = None

\* ------------------------------------------------------------------ SpecBreaker
\* One CircuitBreaker called from the threads of Threads.  call() holds the
\* lock for its opening check and for _on_success / _on_failure; the wrapped
\* operation runs between them with the lock released.
CacheIdle ==
    /\ local_aircraft_cache = TTLCacheInit(0, 0)
    /\ lastOp = [op |-> "init", key |-> "", ret |-> None, removed |-> {},
                 configured |-> [max_size |-> 0, ttl_seconds |-> 0]]
    /\ last_put = NeverPut

InitBreaker ==
    /\ now = 1
    /\ \E f \in 0..MaxThresholdArg, t \in 0..MaxTimeoutArg :
           api_circuit_breaker = CircuitBreakerInit(f, t)
    /\ calls = [th \in Threads |-> "idle"]
    /\ lastCall = [event |-> "init", thread |-> "", found |-> "CLOSED",
                   error |-> "", propagated |-> ""]
    /\ consecutive_failures = 0
    /\ CacheIdle
    /\ RunIdle

BreakerEvent(event, th) ==
    lastCall' = [event |-> event, thread |-> th, found |-> api_circuit_breaker.state,
                 error |-> "", propagated |-> ""]

\* What the wrapped operation may raise.
Errors == {"ConnectionError", "ValueError"}

\* The wrapped operation raised `error` and call() raised `propagated` to its
\* caller ("" for a normal return).
BreakerRaised(th, error, propagated) ==
    lastCall' = [event |-> "failure", thread |-> th, found |-> api_circuit_breaker.state,
                 error |-> error, propagated |-> propagated]

\* call(): the opening check.
CallEnter(th) ==
    /\ calls[th] = "idle"
    /\ api_circuit_breaker' = call_enter(api_circuit_breaker, now).self
    /\ IF call_enter(api_circuit_breaker, now).raised
       THEN BreakerEvent("unavailable", th) /\ UNCHANGED calls
       ELSE BreakerEvent("invoked", th) /\ calls' = [calls EXCEPT ![th] = "func"]
    /\ UNCHANGED <<now, consecutive_failures, cacheVars, runVars>>

\* The wrapped operation returns: _on_success.
CallSucceeds(th) ==
    /\ calls[th] = "func"
    /\ api_circuit_breaker' = on_success(api_circuit_breaker)
    /\ calls' = [calls EXCEPT ![th] = "idle"]
    /\ BreakerEvent("success", th)
    /\ consecutive_failures' = 0
    /\ UNCHANGED <<now, cacheVars, runVars>>

\* Mutant of CallFails: the failure is recorded and call() returns normally.
CallFails_Swallows(th) ==
    /\ calls[th] = "func"
    /\ api_circuit_breaker' = on_failure(api_circuit_breaker, now)
    /\ calls' = [calls EXCEPT ![th] = "idle"]
    /\ \E e \in Errors : BreakerRaised(th, e, "")
    /\ consecutive_failures' = consecutive_failures + 1
    /\ UNCHANGED <<now, cacheVars, runVars>>

\* The wrapped operation raises e: _on_failure, and the bare `raise` re-raises
\* e (lines 973-975).
CallFails(th) ==
    /\ calls[th] = "func"
    /\ api_circuit_breaker' = on_failure(api_circuit_breaker, now)
    /\ calls' = [calls EXCEPT ![th] = "idle"]
    /\ \E e \in Errors : BreakerRaised(th, e, e)
    /\ consecutive_failures' = consecutive_failures + 1
    /\ UNCHANGED <<now, cacheVars, runVars>>

BreakerTick ==
    /\ Tick
    /\ BreakerEvent("tick", "")
    /\ UNCHANGED <<api_circuit_breaker, calls, consecutive_failures, cacheVars, runVars>>

NextBreaker ==
    \/ \E th \in Threads : CallEnter(th)
    \/ \E th \in Threads : CallSucceeds(th)
    \/ \E th \in Threads : CallFails(th)
    \/ BreakerTick

SpecBreaker == InitBreaker /\ [][NextBreaker]_vars

\* ------------------------------------------------------------------ CircuitBreaker claims
Breaker == api_circuit_breaker

SinceLastFailure == now - Breaker.last_failure_time

\* C8: after failure_threshold consecutive failures (and not before) the
\* breaker is OPEN, and a call made less than timeout after the last failure
\* raises "unavailable": the wrapped operation is not invoked and the failure
\* count, the last-failure time and the state stay as they were.
C8_OpensAndFailsFast ==
    [][/\ consecutive_failures' < Breaker'.failure_threshold => Breaker'.state = "CLOSED"
       /\ (lastCall'.event = "failure"
             /\ consecutive_failures' = Breaker'.failure_threshold) =>
                Breaker'.state = "OPEN"
       /\ (lastCall'.event \in {"unavailable", "invoked"} /\ now' = now
             /\ consecutive_failures >= Breaker.failure_threshold
             /\ SinceLastFailure < Breaker.timeout) =>
                /\ lastCall'.event = "unavailable"
                /\ calls' = calls
                /\ Breaker' = Breaker
                /\ Breaker.state = "OPEN"
      ]_vars

\* A call was refused by an OPEN breaker.
C8_Witness ==
    /\ lastCall.event = "unavailable"
    /\ consecutive_failures = Breaker.failure_threshold
    /\ SinceLastFailure < Breaker.timeout
    /\ Breaker.state = "OPEN"

\* C9 (as claimed): a call made to an OPEN breaker once timeout has elapsed
\* since the last failure (elapsed >= timeout) moves it to HALF_OPEN and
\* invokes the wrapped operation.
C9_HalfOpenAfterTimeout ==
    [][(lastCall'.event \in {"unavailable", "invoked"} /\ now' = now
          /\ Breaker.state = "OPEN"
          /\ SinceLastFailure >= Breaker.timeout) =>
            /\ lastCall'.event = "invoked"
            /\ Breaker'.state = "HALF_OPEN"
      ]_vars

\* C10: right after a successful call the failure count is 0 and the state is
\* CLOSED, whatever they were; an OPEN breaker has seen failure_threshold
\* failures with no success in between.
C10_SuccessResets ==
    /\ lastCall.event = "success" =>
          Breaker.failure_count = 0 /\ Breaker.state = "CLOSED"
    /\ Breaker.state = "OPEN" => consecutive_failures >= Breaker.failure_threshold

\* A call that was let through succeeded after concurrent failures had opened
\* the breaker.
C10_Witness ==
    /\ lastCall.event = "success"
    /\ lastCall.found = "OPEN"
    /\ Breaker.state = "CLOSED"

\* C11: a call that fails while the breaker is HALF_OPEN leaves it OPEN with
\* the failure count one higher (not reset) and the last-failure time equal to
\* the time of that failure, so that a call made right after it fails fast.
C11_FailedTrialReopens ==
    [][(lastCall'.event = "failure" /\ Breaker.state = "HALF_OPEN") =>
         /\ Breaker'.state = "OPEN"
         /\ Breaker'.failure_count = Breaker.failure_count + 1
         /\ Breaker'.failure_count > Breaker'.failure_threshold
         /\ Breaker'.last_failure_time = now
         /\ call_enter(Breaker', now').raised
      ]_vars

\* The trial call let through after the timeout has failed.
C11_Witness ==
    /\ lastCall.event = "failure"
    /\ lastCall.found = "HALF_OPEN"
    /\ Breaker.state = "OPEN"
    /\ Breaker.last_failure_time = now
    /\ Breaker.failure_count > Breaker.failure_threshold

\* ------------------------------------------------------------------ ADSBLogger
\* Every validated snapshot of at most MaxFeed aircraft, as the list of its
\* hex codes (a hex code may occur twice in one snapshot).
Feeds == UNION {[1..n -> FeedHexes] : n \in 0..MaxFeed}

Range(list) == {list[i] : i \in 1..Len(list)}

\* Mutant of first_seen_for: first_seen is stamped at every observation.
first_seen_for_Restamp(cached_aircraft, t) == t

\* run, lines 1352-1359: first_seen is carried over from the cached entry.
first_seen_for(cached_aircraft, t) ==
    IF cached_aircraft # None THEN cached_aircraft.first_seen ELSE t

\* Mutant of merge_aircraft: an aircraft is new when it is not in the cache.
merge_aircraft_NewIfUncached(self, hex_code, previously_seen, t) ==
    LET cached == get(self, hex_code, t)
        ac == Aircraft(first_seen_for(cached.ret, t), cached.ret = None)
    IN  put(cached.self, hex_code, ac, t)

\* One pass of the merge loop of run (lines 1334-1365); t is `now`.
merge_aircraft(self, hex_code, previously_seen, t) ==
    LET cached == get(self, hex_code, t)
        ac == Aircraft(first_seen_for(cached.ret, t), hex_code \notin previously_seen)
    IN  put(cached.self, hex_code, ac, t)

\* Mutant of should_upload: there is no initial-baseline disjunct.
should_upload_NoBaseline(cur_time, last_upload, cache_size, first_done) ==
    \/ cur_time - last_upload >= SUMMARY_UPLOAD_INTERVAL
    \/ cache_size >= MAX_CACHE_SIZE

\* Mutant of should_upload: the elapsed interval does not count.
should_upload_NoInterval(cur_time, last_upload, cache_size, first_done) ==
    \/ cache_size >= MAX_CACHE_SIZE
    \/ (~first_done /\ cache_size > 0)

\* run, lines 1391-1393.
should_upload(cur_time, last_upload, cache_size, first_done) ==
    \/ cur_time - last_upload >= SUMMARY_UPLOAD_INTERVAL
    \/ cache_size >= MAX_CACHE_SIZE
    \/ (~first_done /\ cache_size > 0)

\* Mutant of upsert: existing_query increments seen_count as
\* new_sighting_query does.
upsert_AlwaysCounts(row, record, t) ==
    IF row.seen_count = 0
    THEN [seen_count |-> 1, first_seen |-> record.first_seen, last_seen |-> t]
    ELSE [row EXCEPT !.seen_count = @ + 1, !.last_seen = t]

\* Mutant of upsert: the update list also assigns first_seen=VALUES(first_seen).
upsert_RewritesFirstSeen(row, record, t) ==
    IF row.seen_count = 0
    THEN [seen_count |-> 1, first_seen |-> record.first_seen, last_seen |-> t]
    ELSE [seen_count |-> IF record.is_new_sighting THEN row.seen_count + 1
                         ELSE row.seen_count,
          first_seen |-> record.first_seen, last_seen |-> t]

\* INSERT ... ON DUPLICATE KEY UPDATE for one record: new_sighting_query
\* when is_new_sighting, existing_query otherwise.
upsert(row, record, t) ==
    IF row.seen_count = 0
    THEN [seen_count |-> 1, first_seen |-> record.first_seen, last_seen |-> t]
    ELSE [row EXCEPT !.seen_count = IF record.is_new_sighting THEN @ + 1 ELSE @,
                     !.last_seen = t]

\* database_operation, committed: every record of the snapshot is upserted.
database_operation(table, aircraft_data, t) ==
    [h \in FeedHexes |->
        IF h \in Keys(aircraft_data) THEN upsert(table[h], ValueOf(aircraft_data, h), t)
        ELSE table[h]]

\* ------------------------------------------------------------------ database_operation
\* for i in range(0, len(list), batch_size): list[i:i + batch_size]
RECURSIVE Batches(_)
Batches(list) ==
    IF Len(list) <= BATCH_SIZE THEN (IF list = <<>> THEN <<>> ELSE <<list>>)
    ELSE <<SubSeq(list, 1, BATCH_SIZE)>> \o Batches(SubSeq(list, BATCH_SIZE + 1, Len(list)))

\* The executemany calls of database_operation in their order: the batches
\* of new_sightings, then those of existing_aircraft.
Statements(recs) ==
    Batches(SelectSeq(recs, LAMBDA r : r.v.is_new_sighting))
        \o Batches(SelectSeq(recs, LAMBDA r : ~r.v.is_new_sighting))

\* cursor.executemany(query, batch) inside the transaction.
executemany(table, batch, t) ==
    [h \in FeedHexes |->
        IF h \in Keys(batch) THEN upsert(table[h], ValueOf(batch, h), t) ELSE table[h]]

\* Mutant of clear_new_sighting: the cache is emptied after the commit.
clear_new_sighting_Clears(self, snapshot, t) == clear(self)

\* Mutant of clear_new_sighting: the entries are put back as they are.
RECURSIVE clear_new_sighting_KeepsFlag(_, _, _)
clear_new_sighting_KeepsFlag(self, snapshot, t) ==
    IF snapshot = <<>> THEN self
    ELSE clear_new_sighting_KeepsFlag(
             put(self, Head(snapshot).k, Head(snapshot).v, t), Tail(snapshot), t)

\* Mutant of clear_new_sighting: the entries are put back with first_seen
\* stamped anew.
RECURSIVE clear_new_sighting_Restamps(_, _, _)
clear_new_sighting_Restamps(self, snapshot, t) ==
    IF snapshot = <<>> THEN self
    ELSE clear_new_sighting_Restamps(
             put(self, Head(snapshot).k, Aircraft(t, FALSE), t), Tail(snapshot), t)

\* run, lines 1421-1423: for every item of the snapshot, reset the flag and
\* put the entry back.
RECURSIVE clear_new_sighting(_, _, _)
clear_new_sighting(self, snapshot, t) ==
    IF snapshot = <<>> THEN self
    ELSE clear_new_sighting(
             put(self, Head(snapshot).k,
                 [Head(snapshot).v EXCEPT !.is_new_sighting = FALSE], t),
             Tail(snapshot), t)

\* The table a fresh process may find: empty, or with the row an earlier run
\* left for aircraft A.
Tables == {NoRows, [NoRows EXCEPT !["A"] = [seen_count |-> 1, first_seen |-> 0, last_seen |-> 0]]}

Init ==
    /\ now = 1
    /\ CacheIdle
    /\ BreakerIdle
    /\ RunInit(1)
    /\ tracked_aircraft \in Tables
    /\ ServicesIdle

\* Top of a cycle, after read_aircraft_json returned `list`.
BeginCycle(list) ==
    /\ current_time' = now
    /\ all_aircraft' = list
    /\ current_hexes' = Range(list)
    /\ upload_result' = "none"
    /\ observed' = Range(list)
    /\ observed_before' = observed
    /\ fetched_before' = lastCall.event
    /\ pending' = [h \in FeedHexes |->
                     IF h \in Range(list) \ observed THEN pending[h] + 1 ELSE pending[h]]
    /\ last_seen' = [h \in FeedHexes |-> IF h \in Range(list) THEN now ELSE last_seen[h]]
    /\ pc' = "merge"
    /\ UNCHANGED <<serviceVars, slept, now, cacheVars, calls, consecutive_failures, shutdown_event,
                   previously_seen_hexes, last_summary_upload_time,
                   first_scan_complete, upload_data, retry_count, tracked_aircraft,
                   attempts, notifications, merged_since_commit, exceptions>>

\* read_aircraft_json: the fetch goes through api_circuit_breaker and succeeds.
FetchOk(list) ==
    /\ pc = "fetch"
    /\ ~shutdown_event
    /\ ~call_enter(api_circuit_breaker, now).raised
    /\ api_circuit_breaker' = on_success(call_enter(api_circuit_breaker, now).self)
    /\ BreakerEvent("success", "")
    /\ BeginCycle(list)

\* Mutant of FetchError: the failed fetch aborts the cycle, which goes to
\* its sleep.
FetchError_AbortsCycle ==
    /\ pc = "fetch"
    /\ ~shutdown_event
    /\ ~call_enter(api_circuit_breaker, now).raised
    /\ api_circuit_breaker' = on_failure(call_enter(api_circuit_breaker, now).self, now)
    /\ BreakerEvent("failure", "")
    /\ pc' = "sleep"
    /\ UNCHANGED <<serviceVars, slept, now, cacheVars, calls, consecutive_failures, all_aircraft,
                   current_hexes, current_time, shutdown_event, previously_seen_hexes,
                   uploadVars, historyVars>>

\* The fetch raises: _on_failure, the error is caught and [] returned.
FetchError ==
    /\ pc = "fetch"
    /\ ~shutdown_event
    /\ ~call_enter(api_circuit_breaker, now).raised
    /\ api_circuit_breaker' = on_failure(call_enter(api_circuit_breaker, now).self, now)
    /\ BreakerEvent("failure", "")
    /\ BeginCycle(<<>>)

\* The breaker is OPEN and fails fast: caught as well, [] returned.
FetchUnavailable ==
    /\ pc = "fetch"
    /\ ~shutdown_event
    /\ call_enter(api_circuit_breaker, now).raised
    /\ UNCHANGED api_circuit_breaker
    /\ BreakerEvent("unavailable", "")
    /\ BeginCycle(<<>>)

MergeStep ==
    /\ pc = "merge"
    /\ all_aircraft # <<>>
    /\ local_aircraft_cache' =
           merge_aircraft(local_aircraft_cache, Head(all_aircraft),
                          previously_seen_hexes, now)
    /\ all_aircraft' = Tail(all_aircraft)
    /\ merged_since_commit' = TRUE
    /\ UNCHANGED <<serviceVars, slept, now, lastOp, last_put, breakerVars, pc, current_hexes, current_time,
                   shutdown_event, previously_seen_hexes, uploadVars, observed,
                   observed_before, fetched_before, pending, last_seen, exceptions>>

\* Mutant of EndMerge: an empty cycle leaves previously_seen_hexes as it was.
EndMerge_KeepsSeenOnEmpty ==
    /\ pc = "merge"
    /\ all_aircraft = <<>>
    /\ previously_seen_hexes' = IF current_hexes = {} THEN previously_seen_hexes
                                ELSE current_hexes
    /\ local_aircraft_cache' = cleanup_expired(local_aircraft_cache, now).self
    /\ LET cache_size == len(local_aircraft_cache', now).ret
       IN  IF should_upload(current_time, last_summary_upload_time, cache_size,
                            first_scan_complete) /\ cache_size > 0
           THEN /\ upload_data' = items(local_aircraft_cache', now).ret
                /\ retry_count' = 0
                /\ attempts' = 0
                /\ pc' = "upload"
           ELSE /\ UNCHANGED <<upload_data, retry_count, attempts>>
                /\ pc' = "sleep"
    /\ UNCHANGED <<serviceVars, slept, now, lastOp, last_put, breakerVars, all_aircraft, current_hexes,
                   current_time, shutdown_event, last_summary_upload_time,
                   first_scan_complete, upload_result, tracked_aircraft, notifications,
                   historyVars>>

\* After the merge loop (lines 1369-1410): remember the hex codes, purge,
\* decide whether to upload and take the snapshot.
EndMerge ==
    /\ pc = "merge"
    /\ all_aircraft = <<>>
    /\ previously_seen_hexes' = current_hexes
    /\ local_aircraft_cache' = cleanup_expired(local_aircraft_cache, now).self
    /\ LET cache_size == len(local_aircraft_cache', now).ret
       IN  IF should_upload(current_time, last_summary_upload_time, cache_size,
                            first_scan_complete) /\ cache_size > 0
           THEN /\ upload_data' = items(local_aircraft_cache', now).ret
                /\ retry_count' = 0
                /\ attempts' = 0
                /\ pc' = "upload"
           ELSE /\ UNCHANGED <<upload_data, retry_count, attempts>>
                /\ pc' = "sleep"
    /\ UNCHANGED <<serviceVars, slept, now, lastOp, last_put, breakerVars, all_aircraft, current_hexes,
                   current_time, shutdown_event, last_summary_upload_time,
                   first_scan_complete, upload_result, tracked_aircraft, notifications,
                   historyVars>>

\* Mutant of UploadSucceeds: last_summary_upload_time is not updated.
UploadSucceeds_KeepsUploadTime ==
    /\ pc = "upload"
    /\ tracked_aircraft' = database_operation(tracked_aircraft, upload_data, now)
    /\ upload_result' = "ok"
    /\ first_scan_complete' = TRUE
    /\ local_aircraft_cache' =
           clear_new_sighting(items(local_aircraft_cache, now).self,
                              items(local_aircraft_cache, now).ret, now)
    /\ pending' = [h \in FeedHexes |-> IF h \in Keys(upload_data) THEN 0 ELSE pending[h]]
    /\ merged_since_commit' = FALSE
    /\ upload_data' = <<>>
    /\ attempts' = attempts + 1
    /\ pc' = "sleep"
    /\ UNCHANGED <<serviceVars, slept, now, lastOp, last_put, breakerVars, all_aircraft, current_hexes,
                   current_time, shutdown_event, previously_seen_hexes, retry_count,
                   last_summary_upload_time, notifications, observed, observed_before, fetched_before,
                   last_seen, exceptions>>

\* upload_summary_to_database returns True (lines 1414-1424).
UploadSucceeds ==
    /\ pc = "upload"
    /\ tracked_aircraft' = database_operation(tracked_aircraft, upload_data, now)
    /\ upload_result' = "ok"
    /\ last_summary_upload_time' = current_time
    /\ first_scan_complete' = TRUE
    /\ local_aircraft_cache' =
           clear_new_sighting(items(local_aircraft_cache, now).self,
                              items(local_aircraft_cache, now).ret, now)
    /\ pending' = [h \in FeedHexes |-> IF h \in Keys(upload_data) THEN 0 ELSE pending[h]]
    /\ merged_since_commit' = FALSE
    /\ upload_data' = <<>>
    /\ attempts' = attempts + 1
    /\ pc' = "sleep"
    /\ UNCHANGED <<serviceVars, slept, now, lastOp, last_put, breakerVars, all_aircraft, current_hexes,
                   current_time, shutdown_event, previously_seen_hexes, retry_count,
                   notifications, observed, observed_before, fetched_before, last_seen, exceptions>>

\* database_operation raises and is rolled back: retry after RETRY_DELAY
\* (lines 1295-1298).
UploadRetry ==
    /\ pc = "upload"
    /\ retry_count < MAX_RETRY_ATTEMPTS
    /\ now + RETRY_DELAY <= MaxRunTime
    /\ now' = now + RETRY_DELAY
    /\ retry_count' = retry_count + 1
    /\ attempts' = attempts + 1
    /\ UNCHANGED <<serviceVars, cacheVars, breakerVars, loopVars, shutdown_event,
                   previously_seen_hexes, last_summary_upload_time,
                   first_scan_complete, upload_data, upload_result, tracked_aircraft,
                   notifications, historyVars>>

\* Mutant of UploadGivesUp: the failed step leaves the initial-baseline phase.
UploadGivesUp_MarksBaseline ==
    /\ pc = "upload"
    /\ retry_count >= MAX_RETRY_ATTEMPTS
    /\ upload_result' = "failed"
    /\ upload_data' = <<>>
    /\ attempts' = attempts + 1
    /\ notifications' = notifications + 1
    /\ first_scan_complete' = TRUE
    /\ pc' = "sleep"
    /\ UNCHANGED <<serviceVars, slept, now, cacheVars, breakerVars, all_aircraft, current_hexes, current_time,
                   shutdown_event, previously_seen_hexes, last_summary_upload_time,
                   retry_count, tracked_aircraft, historyVars>>

\* database_operation raises with the retries used up: the failure email is
\* sent and False returned (lines 1299-1302, 1426).
UploadGivesUp ==
    /\ pc = "upload"
    /\ retry_count >= MAX_RETRY_ATTEMPTS
    /\ upload_result' = "failed"
    /\ upload_data' = <<>>
    /\ attempts' = attempts + 1
    /\ notifications' = notifications + 1
    /\ pc' = "sleep"
    /\ UNCHANGED <<serviceVars, slept, now, cacheVars, breakerVars, all_aircraft, current_hexes, current_time,
                   shutdown_event, previously_seen_hexes, last_summary_upload_time,
                   first_scan_complete, retry_count, tracked_aircraft, historyVars>>

\* The sliced sleep between two cycles (lines 1445-1451), all its slices in
\* one step: Spec has no signal that could come between two slices.
Sleep ==
    /\ pc = "sleep"
    /\ ~shutdown_event
    /\ now + CYCLE_SLEEP <= MaxRunTime
    /\ now' = now + CYCLE_SLEEP
    /\ pc' = "fetch"
    /\ UNCHANGED <<serviceVars, slept, cacheVars, breakerVars, all_aircraft, current_hexes, current_time,
                   shutdown_event, previously_seen_hexes, uploadVars, historyVars>>

Next ==
    \/ \E list \in Feeds : FetchOk(list)
    \/ FetchError
    \/ FetchUnavailable
    \/ MergeStep
    \/ EndMerge
    \/ UploadSucceeds
    \/ UploadRetry
    \/ UploadGivesUp
    \/ Sleep

Spec == Init /\ [][Next]_vars

\* ------------------------------------------------------------------ SpecLifecycle
\* The main loop with what Spec leaves out: the termination signal, the
\* unexpected exceptions of a cycle, and the final upload after the loop.
InitLifecycle ==
    /\ now = MaxRunTime - MaxLifeSpan
    /\ CacheIdle
    /\ BreakerIdle
    /\ RunInit(MaxRunTime - MaxLifeSpan)
    /\ tracked_aircraft = NoRows
    /\ ServicesIdle

\* signal_handler (SIGTERM, SIGINT): runs between any two steps of the loop.
SignalHandler ==
    /\ pc # "done"
    /\ ~shutdown_event
    /\ shutdown_event' = TRUE
    /\ UNCHANGED <<serviceVars, now, cacheVars, breakerVars, loopVars, previously_seen_hexes,
                   uploadVars, historyVars>>

\* Mutant of LoopExit: the final upload is subject to the upload decision.
LoopExit_Gated ==
    /\ pc \in {"fetch", "sleep"}
    /\ shutdown_event
    /\ local_aircraft_cache' = items(local_aircraft_cache, now).self
    /\ upload_data' = items(local_aircraft_cache, now).ret
    /\ retry_count' = 0
    /\ attempts' = 0
    /\ slept' = 0
    /\ upload_result' = "none"
    /\ pc' = IF should_upload(current_time, last_summary_upload_time, Len(upload_data'),
                              first_scan_complete) /\ upload_data' # <<>>
             THEN "final_upload" ELSE "done"
    /\ UNCHANGED <<serviceVars, now, lastOp, last_put, breakerVars, all_aircraft, current_hexes,
                   current_time, shutdown_event, previously_seen_hexes,
                   last_summary_upload_time, first_scan_complete, tracked_aircraft,
                   notifications, historyVars>>

\* The flag is found set: the sleep is skipped (or broken off), the `while`
\* test fails, and the final data is taken from the cache (lines 1461-1464).
LoopExit ==
    /\ pc \in {"fetch", "sleep"}
    /\ shutdown_event
    /\ local_aircraft_cache' = items(local_aircraft_cache, now).self
    /\ upload_data' = items(local_aircraft_cache, now).ret
    /\ retry_count' = 0
    /\ attempts' = 0
    /\ slept' = 0
    /\ upload_result' = "none"
    /\ pc' = IF upload_data' = <<>> THEN "done" ELSE "final_upload"
    /\ UNCHANGED <<serviceVars, now, lastOp, last_put, breakerVars, all_aircraft, current_hexes,
                   current_time, shutdown_event, previously_seen_hexes,
                   last_summary_upload_time, first_scan_complete, tracked_aircraft,
                   notifications, historyVars>>

\* The final upload_summary_to_database returns True; run ignores the result.
FinalUploadSucceeds ==
    /\ pc = "final_upload"
    /\ tracked_aircraft' = database_operation(tracked_aircraft, upload_data, now)
    /\ upload_result' = "ok"
    /\ attempts' = attempts + 1
    /\ pc' = "done"
    /\ UNCHANGED <<serviceVars, slept, now, cacheVars, breakerVars, all_aircraft, current_hexes, current_time,
                   shutdown_event, previously_seen_hexes, last_summary_upload_time,
                   first_scan_complete, upload_data, retry_count, notifications,
                   historyVars>>

FinalUploadRetry ==
    /\ pc = "final_upload"
    /\ retry_count < MAX_RETRY_ATTEMPTS
    /\ now + RETRY_DELAY <= MaxRunTime
    /\ now' = now + RETRY_DELAY
    /\ retry_count' = retry_count + 1
    /\ attempts' = attempts + 1
    /\ UNCHANGED <<serviceVars, cacheVars, breakerVars, loopVars, shutdown_event,
                   previously_seen_hexes, last_summary_upload_time,
                   first_scan_complete, upload_data, upload_result, tracked_aircraft,
                   notifications, historyVars>>

FinalUploadGivesUp ==
    /\ pc = "final_upload"
    /\ retry_count >= MAX_RETRY_ATTEMPTS
    /\ upload_result' = "failed"
    /\ attempts' = attempts + 1
    /\ notifications' = notifications + 1
    /\ pc' = "done"
    /\ UNCHANGED <<serviceVars, slept, now, cacheVars, breakerVars, all_aircraft, current_hexes, current_time,
                   shutdown_event, previously_seen_hexes, last_summary_upload_time,
                   first_scan_complete, upload_data, retry_count, tracked_aircraft,
                   historyVars>>

\* Mutant of SleepSlice: the flag is looked at before the first slice only.
SleepSlice_Unsliced ==
    /\ pc = "sleep"
    /\ slept = 0 => ~shutdown_event
    /\ now + 1 <= MaxRunTime
    /\ now' = now + 1
    /\ IF slept + 1 >= CYCLE_SLEEP
       THEN pc' = "fetch" /\ slept' = 0
       ELSE pc' = pc /\ slept' = slept + 1
    /\ UNCHANGED <<serviceVars, cacheVars, breakerVars, all_aircraft, current_hexes,
                   current_time, shutdown_event, previously_seen_hexes, uploadVars,
                   historyVars>>

\* One pass of the sleep loop (lines 1445-1448): the flag is tested, then one
\* slice is slept; after the last slice the `while` is back at its test.
SleepSlice ==
    /\ pc = "sleep"
    /\ ~shutdown_event
    /\ now + 1 <= MaxRunTime
    /\ now' = now + 1
    /\ IF slept + 1 >= CYCLE_SLEEP
       THEN pc' = "fetch" /\ slept' = 0
       ELSE pc' = pc /\ slept' = slept + 1
    /\ UNCHANGED <<serviceVars, cacheVars, breakerVars, all_aircraft, current_hexes,
                   current_time, shutdown_event, previously_seen_hexes, uploadVars,
                   historyVars>>

\* An unexpected exception in the merge or in the health check: caught at
\* line 1456, sleep(60) unless shutdown is requested, back to the `while`.
CycleRaises ==
    /\ pc \in {"merge", "sleep"}
    /\ slept = 0
    /\ exceptions < MaxExceptions
    /\ exceptions' = exceptions + 1
    /\ IF shutdown_event THEN now' = now
       ELSE now + COOLDOWN <= MaxRunTime /\ now' = now + COOLDOWN
    /\ all_aircraft' = <<>>
    /\ pc' = "fetch"
    /\ UNCHANGED <<serviceVars, slept, cacheVars, breakerVars, current_hexes, current_time, shutdown_event,
                   previously_seen_hexes, uploadVars, observed, observed_before, fetched_before, pending,
                   merged_since_commit, last_seen>>

\* dict(self.local_aircraft_cache.items()) raises: `continue` (lines 1405-1410).
SnapshotRaises ==
    /\ pc = "merge"
    /\ all_aircraft = <<>>
    /\ exceptions < MaxExceptions
    /\ exceptions' = exceptions + 1
    /\ previously_seen_hexes' = current_hexes
    /\ local_aircraft_cache' = cleanup_expired(local_aircraft_cache, now).self
    /\ LET cache_size == len(local_aircraft_cache', now).ret
       IN  should_upload(current_time, last_summary_upload_time, cache_size,
                         first_scan_complete) /\ cache_size > 0
    /\ pc' = "fetch"
    /\ UNCHANGED <<serviceVars, slept, now, lastOp, last_put, breakerVars, all_aircraft, current_hexes,
                   current_time, shutdown_event, uploadVars, observed, observed_before, fetched_before,
                   pending, merged_since_commit, last_seen>>

\* upload_summary_to_database raises while it builds the records: caught at
\* line 1427, the cycle goes on to its sleep.
UploadRaises ==
    /\ pc = "upload"
    /\ attempts = 0
    /\ exceptions < MaxExceptions
    /\ exceptions' = exceptions + 1
    /\ upload_data' = <<>>
    /\ pc' = "sleep"
    /\ UNCHANGED <<serviceVars, slept, now, cacheVars, breakerVars, all_aircraft, current_hexes, current_time,
                   shutdown_event, previously_seen_hexes, last_summary_upload_time,
                   first_scan_complete, retry_count, upload_result, tracked_aircraft,
                   attempts, notifications, observed, observed_before, fetched_before, pending,
                   merged_since_commit, last_seen>>

\* hex codes the live feed reports in SpecLifecycle
LifeHexes == {"A", "B"}
LifeFeeds == UNION {[1..n -> LifeHexes] : n \in 0..MaxLifeFeed}

NextLifecycle ==
    \/ \E list \in LifeFeeds : FetchOk(list)
    \/ FetchError
    \/ FetchUnavailable
    \/ MergeStep
    \/ EndMerge
    \/ UploadSucceeds
    \/ UploadRetry
    \/ UploadGivesUp
    \/ SleepSlice
    \/ SignalHandler
    \/ LoopExit
    \/ FinalUploadSucceeds
    \/ FinalUploadRetry
    \/ FinalUploadGivesUp
    \/ CycleRaises
    \/ SnapshotRaises
    \/ UploadRaises

SpecLifecycle == InitLifecycle /\ [][NextLifecycle]_vars

\* The steps of the thread that executes run, whatever the store does:
\* everything but the signal, the commits that succeed, and the passes of
\* the merge loop, which MergeAdvances stands for.
RunStep ==
    \/ \E list \in LifeFeeds : FetchOk(list)
    \/ FetchError
    \/ FetchUnavailable
    \/ EndMerge
    \/ UploadRetry
    \/ UploadGivesUp
    \/ SleepSlice
    \/ LoopExit
    \/ FinalUploadRetry
    \/ FinalUploadGivesUp
    \/ CycleRaises
    \/ SnapshotRaises
    \/ UploadRaises

\* One pass of `for aircraft in all_aircraft` (line 1334), seen through the
\* list alone: MergeStep is the only step of NextLifecycle that takes the
\* head off all_aircraft while pc = "merge".
MergeAdvances ==
    /\ pc = "merge"
    /\ all_aircraft # <<>>
    /\ all_aircraft' = Tail(all_aircraft)

\* SpecLifecycle with a thread that keeps running: every call run makes
\* returns or raises (the fetch has a timeout, the connection a
\* connection_timeout, every sleep ends), so run does not stop at a step it
\* can take, and the merge loop goes on to its next aircraft.  Which way a
\* call ends is left open: a commit may succeed, and no fairness makes it:
\* the store may fail forever.
SpecShutdown ==
    /\ InitLifecycle
    /\ [][NextLifecycle]_vars
    /\ WF_vars(RunStep)
    /\ WF_all_aircraft(MergeAdvances)

\* ------------------------------------------------------------------ SpecStore
\* Threads run database_operation, each inside `with get_connection()`, on
\* the records of one snapshot; every statement of the block, the commit,
\* the rollback and the close may fail.
Injective(list) == \A i, j \in 1..Len(list) : list[i].k = list[j].k => i = j

Snapshots ==
    {list \in UNION {[1..n -> [k : FeedHexes, v : {Aircraft(1, new) : new \in BOOLEAN}]] :
                         n \in 1..MaxRecords} : Injective(list)}

\* What mysql.connector may raise.
StoreErrors == {"DatabaseError", "InterfaceError"}

InitStore ==
    /\ now = 1
    /\ CacheIdle
    /\ BreakerIdle
    /\ RunInit(1)
    /\ tracked_aircraft \in Tables
    /\ pool = DatabaseManagerInit(0)
    /\ scope = [th \in Threads |-> ScopeIdle]
    /\ work = tracked_aircraft
    /\ records \in Snapshots
    /\ RegistryIdle

StoreFrame ==
    UNCHANGED <<now, cacheVars, breakerVars, loopVars, shutdown_event,
                previously_seen_hexes, last_summary_upload_time, first_scan_complete,
                upload_data, retry_count, upload_result, notifications, historyVars,
                registryVars, records>>

\* pool.get_connection() hands out a connection (line 1031) and the block
\* starts: cursor, session settings, the partition of the records.
Acquire(th) ==
    /\ scope[th].pc = "idle"
    /\ attempts < MaxScopes
    /\ pool.free > 0
    /\ pool' = [pool EXCEPT !.free = @ - 1]
    /\ scope' = [scope EXCEPT ![th] =
                    [ScopeIdle EXCEPT !.pc = "block", !.conn = TRUE,
                                      !.todo = Statements(records),
                                      !.before = tracked_aircraft]]
    /\ work' = tracked_aircraft
    /\ attempts' = attempts + 1
    /\ UNCHANGED tracked_aircraft
    /\ StoreFrame

\* pool.get_connection() raises (pool exhausted, or the server cannot be
\* reached and the connection goes back to the queue): conn is still None, so
\* neither a rollback nor a close is made, and the error is re-raised.
AcquireRaises(th) ==
    /\ scope[th].pc = "idle"
    /\ attempts < MaxScopes
    /\ \E e \in StoreErrors \cup {"PoolError"} :
          /\ pool.free = 0 <=> e = "PoolError"
          /\ scope' = [scope EXCEPT ![th] =
                          [ScopeIdle EXCEPT !.before = tracked_aircraft,
                                            !.outcome = e]]
    /\ attempts' = attempts + 1
    /\ UNCHANGED <<pool, work, tracked_aircraft>>
    /\ StoreFrame

\* Mutant of ExecBatch: the connection is in autocommit mode.
ExecBatch_Autocommit(th) ==
    /\ scope[th].pc = "block"
    /\ scope[th].todo # <<>>
    /\ work' = executemany(work, Head(scope[th].todo), now)
    /\ tracked_aircraft' = work'
    /\ scope' = [scope EXCEPT ![th].todo = Tail(@)]
    /\ UNCHANGED <<pool, attempts>>
    /\ StoreFrame

\* One executemany of the block: it changes what the transaction sees, not
\* what is committed ('autocommit': False, line 625).
ExecBatch(th) ==
    /\ scope[th].pc = "block"
    /\ scope[th].todo # <<>>
    /\ work' = executemany(work, Head(scope[th].todo), now)
    /\ scope' = [scope EXCEPT ![th].todo = Tail(@)]
    /\ UNCHANGED <<pool, attempts, tracked_aircraft>>
    /\ StoreFrame

\* conn.commit() after the last batch, and the block returns True.
Commit(th) ==
    /\ scope[th].pc = "block"
    /\ scope[th].todo = <<>>
    /\ tracked_aircraft' = work
    /\ scope' = [scope EXCEPT ![th].pc = "finally"]
    /\ UNCHANGED <<pool, attempts, work>>
    /\ StoreFrame

\* A statement of the block raises: the cursor, a session setting, any
\* executemany, or the commit.
BlockRaises(th) ==
    /\ scope[th].pc = "block"
    /\ \E e \in StoreErrors :
          scope' = [scope EXCEPT ![th].pc = "except", ![th].error = e]
    /\ UNCHANGED <<pool, attempts, work, tracked_aircraft>>
    /\ StoreFrame

\* Mutant of RollbackOk: the handler re-raises without a rollback.
RollbackOk_Skipped(th) ==
    /\ scope[th].pc = "except"
    /\ scope' = [scope EXCEPT ![th].pc = "finally"]
    /\ UNCHANGED <<pool, attempts, work, tracked_aircraft>>
    /\ StoreFrame

\* except Exception: conn.rollback() (lines 1034-1038), then `raise` takes
\* the original error on through the finally clause.
RollbackOk(th) ==
    /\ scope[th].pc = "except"
    /\ work' = tracked_aircraft
    /\ scope' = [scope EXCEPT ![th].pc = "finally", ![th].rollback = "done"]
    /\ UNCHANGED <<pool, attempts, tracked_aircraft>>
    /\ StoreFrame

\* conn.rollback() raises and the bare except swallows it (lines 1039-1040).
RollbackFails(th) ==
    /\ scope[th].pc = "except"
    /\ scope' = [scope EXCEPT ![th].pc = "finally", ![th].rollback = "failed"]
    /\ UNCHANGED <<pool, attempts, work, tracked_aircraft>>
    /\ StoreFrame

\* What the caller of the `with` statement gets when the scope ends.
Outcome(th) == IF scope[th].error = "" THEN "returned" ELSE scope[th].error

\* finally: conn.close() puts the connection back into the pool, its session
\* reset (pool_reset_session=True, line 1018).
CloseOk(th) ==
    /\ scope[th].pc = "finally"
    /\ pool' = [pool EXCEPT !.free = @ + 1]
    /\ work' = tracked_aircraft
    /\ scope' = [scope EXCEPT ![th].pc = "idle", ![th].conn = FALSE,
                              ![th].close = "done", ![th].outcome = Outcome(th),
                              ![th].error = ""]
    /\ UNCHANGED <<attempts, tracked_aircraft>>
    /\ StoreFrame

\* conn.close() raises and the bare except swallows it (lines 1044-1049): the
\* session is gone with whatever it had not committed, and whether the
\* connection object is back in the pool's queue is the library's affair.
CloseFails(th) ==
    /\ scope[th].pc = "finally"
    /\ \E returned \in BOOLEAN :
          /\ pool' = IF returned THEN [pool EXCEPT !.free = @ + 1]
                     ELSE [pool EXCEPT !.lost = @ + 1]
          /\ scope' = [scope EXCEPT ![th].pc = "idle", ![th].conn = ~returned,
                                    ![th].close = "failed", ![th].outcome = Outcome(th),
                                    ![th].error = ""]
    /\ work' = tracked_aircraft
    /\ UNCHANGED <<attempts, tracked_aircraft>>
    /\ StoreFrame

NextStore ==
    \/ \E th \in Threads : Acquire(th)
    \/ \E th \in Threads : AcquireRaises(th)
    \/ \E th \in Threads : ExecBatch(th)
    \/ \E th \in Threads : Commit(th)
    \/ \E th \in Threads : BlockRaises(th)
    \/ \E th \in Threads : RollbackOk(th)
    \/ \E th \in Threads : RollbackFails(th)
    \/ \E th \in Threads : CloseOk(th)
    \/ \E th \in Threads : CloseFails(th)

SpecStore == InitStore /\ [][NextStore]_vars

\* ------------------------------------------------------------------ SpecRegistry
\* Threads call get_aircraft_info on one AircraftRegistryCache; the download
\* of the CSV takes time and returns any dataset, or fails.
Registry == aircraft_registry_cache

InitRegistry ==
    /\ now = 1
    /\ CacheIdle
    /\ BreakerIdle
    /\ RunIdle

RegistryFrame ==
    UNCHANGED <<cacheVars, breakerVars, loopVars, shutdown_event, previously_seen_hexes,
                uploadVars, historyVars, storeVars>>

\* get_aircraft_info(hex_code) is called: an empty hex_code is answered at
\* once (lines 901-902), any other call goes for the lock.
GetAircraftInfo(th, hex_code) ==
    /\ lookups[th].pc = "idle"
    /\ lookups' = [lookups EXCEPT ![th] =
                      IF hex_code = "" THEN LookupIdle
                      ELSE [LookupIdle EXCEPT !.pc = "lock", !.hex = hex_code]]
    /\ UNCHANGED <<now, aircraft_registry_cache, last_refresh, fetches>>
    /\ RegistryFrame

\* The call returns `lookup` of its hex_code on the map as it is then, and
\* the lock is free.
Return(th, self) ==
    /\ aircraft_registry_cache' = [self EXCEPT !.lock = ""]
    /\ lookups' = [lookups EXCEPT ![th] =
                      [LookupIdle EXCEPT !.hex = lookups[th].hex,
                                         !.ret = lookup(self, lookups[th].hex)]]

\* `with self.lock:` is entered (line 903).  No refresh is due: look up and
\* return.  A refresh is due: the breaker is asked; when it is open the load
\* returns {} at once, otherwise the download starts, the lock held.
EnterLock(th) ==
    /\ lookups[th].pc = "lock"
    /\ Registry.lock = ""
    /\ IF needs_refresh(Registry, now) /\ ~Registry.loading
       THEN LET e == call_enter(Registry.csv_circuit_breaker, now)
                entered == [Registry EXCEPT !.csv_circuit_breaker = e.self]
            IN  IF e.raised
                THEN /\ Return(th, refresh(entered, NoData, now))
                     /\ last_refresh' = [thread |-> th, outcome |-> "unavailable",
                                         new_data |-> NoData]
                     /\ UNCHANGED fetches
                ELSE /\ aircraft_registry_cache' =
                            [entered EXCEPT !.lock = th, !.loading = TRUE]
                     /\ lookups' = [lookups EXCEPT ![th].pc = "fetch",
                                                   ![th].current_time = now]
                     /\ fetches' = IF Registry.csv_circuit_breaker.state = "CLOSED"
                                   THEN [fetches EXCEPT !.closed = @ + 1]
                                   ELSE [fetches EXCEPT !.trials = @ + 1]
                     /\ UNCHANGED last_refresh
       ELSE Return(th, Registry) /\ UNCHANGED <<last_refresh, fetches>>
    /\ UNCHANGED now
    /\ RegistryFrame

\* fetch_csv returns and the content is parsed into new_data (lines 863-893).
FetchCsv(th, new_data) ==
    /\ lookups[th].pc = "fetch"
    /\ Return(th, refresh([Registry EXCEPT !.csv_circuit_breaker = on_success(@)],
                          new_data, lookups[th].current_time))
    /\ last_refresh' = [thread |-> th, outcome |-> "loaded", new_data |-> new_data]
    /\ fetches' = NoFetches
    /\ UNCHANGED now
    /\ RegistryFrame

\* fetch_csv raises (timeout, HTTP status): the load returns {} (lines 895-897).
FetchCsvRaises(th) ==
    /\ lookups[th].pc = "fetch"
    /\ Return(th, refresh([Registry EXCEPT !.csv_circuit_breaker = on_failure(@, now)],
                          NoData, lookups[th].current_time))
    /\ last_refresh' = [thread |-> th, outcome |-> "error", new_data |-> NoData]
    /\ fetches' = IF Registry.csv_circuit_breaker.state = "CLOSED"
                     /\ Registry'.csv_circuit_breaker.state = "OPEN"
                  THEN [fetches EXCEPT !.opened_at = now] ELSE fetches
    /\ UNCHANGED now
    /\ RegistryFrame

RegistryTick ==
    /\ now < MaxRegistryTime
    /\ now' = now + 1
    /\ UNCHANGED registryVars
    /\ RegistryFrame

NextRegistry ==
    \/ \E th \in Threads, hex_code \in LookupHexes \cup {""} : GetAircraftInfo(th, hex_code)
    \/ \E th \in Threads : EnterLock(th)
    \/ \E th \in Threads, new_data \in Datasets : FetchCsv(th, new_data)
    \/ \E th \in Threads : FetchCsvRaises(th)
    \/ RegistryTick

SpecRegistry == InitRegistry /\ [][NextRegistry]_vars

\* ------------------------------------------------------------------ ADSBLogger claims
SeenCount(table, h) == table[h].seen_count

\* C1 (as claimed): a successful commit raises the seen-count of every hex of
\* its snapshot by the number of distinct appearances of that hex since the
\* hex was last committed: once per appearance, never zero times, never twice.
C1_OncePerAppearance ==
    [][(pc = "upload" /\ upload_result' = "ok") =>
         \A h \in Keys(upload_data) :
            SeenCount(tracked_aircraft', h) - SeenCount(tracked_aircraft, h) = pending[h]
      ]_vars

\* C2: every pass of the merge loop puts the aircraft into the cache with
\* is_new_sighting true exactly when its hex was not fetched in the cycle
\* before, whether or not the hex is cached.
C2_Classification ==
    [][(pc = "merge" /\ all_aircraft # <<>>) =>
         /\ Head(all_aircraft) \in Keys(Cache')
         /\ ValueOf(Cache', Head(all_aircraft)).is_new_sighting
               = (Head(all_aircraft) \notin observed_before)
      ]_vars

\* An aircraft that never left the cache, was absent from the feed of the
\* cycle before and is back, is cached as a new sighting.
C2_Witness ==
    /\ pc = "merge"
    /\ \E h \in Keys(Cache) :
          /\ h \in observed \ observed_before
          /\ Timestamps[h] = now
          /\ ValueOf(Cache, h).first_seen < now
          /\ ValueOf(Cache, h).is_new_sighting

\* C3: no step changes the first_seen of a hex that is cached, unexpired and
\* still cached after the step; a hex observed while not cached (or expired)
\* gets first_seen = the time of the observation.
C3_FirstSeenKept ==
    [][/\ \A h \in Keys(Cache) \cap Keys(Cache') :
             ~IsExpired(local_aircraft_cache, h, now) =>
                 ValueOf(Cache', h).first_seen = ValueOf(Cache, h).first_seen
       /\ (pc = "merge" /\ all_aircraft # <<>>
             /\ (Head(all_aircraft) \notin Keys(Cache)
                   \/ IsExpired(local_aircraft_cache, Head(all_aircraft), now))) =>
             ValueOf(Cache', Head(all_aircraft)).first_seen = now
      ]_vars

\* An aircraft observed in two cycles running has been put again and still
\* carries the first_seen of an earlier cycle.
C3_Witness ==
    /\ pc = "merge"
    /\ \E h \in Keys(Cache) :
          /\ h \in observed \cap observed_before
          /\ Timestamps[h] = now
          /\ ValueOf(Cache, h).first_seen < now

\* C4: a commit step that starts after a successful commit, with no merge in
\* between, has every record in the continuing partition, and when it
\* succeeds no seen-count changes.
C4_CommitIdempotent ==
    [][(pc = "upload" /\ first_scan_complete /\ ~merged_since_commit) =>
         /\ \A i \in 1..Len(upload_data) : ~upload_data[i].v.is_new_sighting
         /\ upload_result' = "ok" =>
               \A h \in FeedHexes :
                  SeenCount(tracked_aircraft', h) = SeenCount(tracked_aircraft, h)
      ]_vars

\* A second commit step runs on the cache the last successful commit left.
C4_Witness ==
    /\ pc = "upload"
    /\ first_scan_complete
    /\ ~merged_since_commit
    /\ upload_data # <<>>

\* C12: a commit step whose every attempt fails calls the failure
\* notification once, at its end and not between the attempts, reports
\* failure, and leaves the cache (keys, first_seen, is_new_sighting: still the
\* snapshot the step was given), last_summary_upload_time and
\* first_scan_complete as they were, the table untouched.
C12_FailedCommitKeepsState ==
    [][(pc = "upload" /\ upload_result' # "ok") =>
         /\ local_aircraft_cache' = local_aircraft_cache
         /\ Cache' = upload_data
         /\ last_summary_upload_time' = last_summary_upload_time
         /\ first_scan_complete' = first_scan_complete
         /\ tracked_aircraft' = tracked_aircraft
         /\ IF upload_result' = "failed"
            THEN notifications' = notifications + 1 /\ pc' = "sleep"
            ELSE notifications' = notifications /\ pc' = "upload"
      ]_vars

\* The first commit step has failed: one notification, the new sightings are
\* still cached and the pipeline is still in its initial-baseline phase.
C12_Witness ==
    /\ pc = "sleep"
    /\ upload_result = "failed"
    /\ notifications = 1
    /\ ~first_scan_complete
    /\ \E h \in Keys(Cache) : ValueOf(Cache, h).is_new_sighting

\* C13 (as claimed): within one commit step database_operation is executed
\* at most MAX_RETRY_ATTEMPTS times, RETRY_DELAY apart; a successful
\* execution ends the step, and so does the failure declared after the last.
C13_AtMostMaxAttempts ==
    [][pc = "upload" =>
         /\ attempts' = attempts + 1
         /\ attempts' <= MAX_RETRY_ATTEMPTS
         /\ IF pc' = "upload"
            THEN now' = now + RETRY_DELAY /\ upload_result' = "none"
            ELSE pc' = "sleep" /\ now' = now /\ upload_result' \in {"ok", "failed"}
      ]_vars

\* C14: the step that ends a commit step with success sets
\* last_summary_upload_time to the time of the cycle (never earlier than it
\* was), sets first_scan_complete, and leaves every unexpired cached aircraft
\* in the cache with is_new_sighting false.  No other step changes
\* last_summary_upload_time or first_scan_complete, and apart from the merge,
\* which assigns the flag, no other step changes the flag of a cached aircraft.
C14_AfterCommit ==
    [][IF pc = "upload" /\ upload_result' = "ok"
       THEN /\ last_summary_upload_time' = current_time
            /\ last_summary_upload_time' >= last_summary_upload_time
            /\ first_scan_complete'
            /\ Keys(Cache') = Keys(Cache) \ ExpiredKeys(local_aircraft_cache, now)
            /\ \A h \in Keys(Cache') : ~ValueOf(Cache', h).is_new_sighting
       ELSE /\ last_summary_upload_time' = last_summary_upload_time
            /\ first_scan_complete' = first_scan_complete
            /\ ~(pc = "merge" /\ all_aircraft # <<>>) =>
                  \A h \in Keys(Cache) \cap Keys(Cache') :
                     ValueOf(Cache', h).is_new_sighting = ValueOf(Cache, h).is_new_sighting
      ]_vars

\* A commit of a later cycle has succeeded: the aircraft that appeared in
\* this cycle is cached with its flag reset.
C14_Witness ==
    /\ pc = "sleep"
    /\ upload_result = "ok"
    /\ first_scan_complete
    /\ last_summary_upload_time = current_time
    /\ last_summary_upload_time > 1
    /\ \E h \in Keys(Cache) :
          h \in observed \ observed_before /\ ~ValueOf(Cache, h).is_new_sighting

\* The three triggers, read where the cycle decides (the step that ends the
\* merge): the cache size is the one left by cleanup_expired.
IntervalElapsed == current_time - last_summary_upload_time >= SUMMARY_UPLOAD_INTERVAL
CacheFull == Len(Cache') >= MAX_CACHE_SIZE
BaselineDue == ~first_scan_complete /\ Len(Cache') > 0
Deciding == pc = "merge" /\ all_aircraft = <<>>

\* C15 (as claimed): the cycle starts its commit step if and only if the
\* interval has elapsed, or the cache is full, or no commit has succeeded
\* yet and the cache is not empty.
C15_GateAsClaimed ==
    [][Deciding => ((pc' = "upload") <=> (IntervalElapsed \/ CacheFull \/ BaselineDue))]_vars

\* C15 (amended): the cycle starts its commit step if and only if the cache
\* is not empty and one of the three triggers holds; with an empty cache the
\* elapsed interval starts no commit.
C15_GateNeedsData ==
    [][Deciding =>
         ((pc' = "upload") <=>
             (Len(Cache') > 0 /\ (IntervalElapsed \/ CacheFull \/ BaselineDue)))]_vars

\* A commit step started by the elapsed interval alone.
C15_Witness ==
    /\ pc = "upload"
    /\ attempts = 0
    /\ first_scan_complete
    /\ Len(upload_data) > 0
    /\ Len(upload_data) < MAX_CACHE_SIZE
    /\ current_time - last_summary_upload_time >= SUMMARY_UPLOAD_INTERVAL

\* The fetch of the running cycle raised, or the breaker refused it.
FetchFailed(event) == event \in {"failure", "unavailable"}

\* C17: a cycle whose fetch failed goes on with an empty list: the fetch step
\* leaves the cache as it is and there is nothing to merge; the next step
\* purges exactly the expired entries, leaving every other entry with its
\* value, takes the upload decision on the purged cache, and the cycle goes
\* into its commit step or its sleep.
C17_FailedFetchIsEmptyCycle ==
    [][/\ (pc = "fetch" /\ pc' # "fetch" /\ FetchFailed(lastCall'.event)) =>
            /\ pc' = "merge"
            /\ all_aircraft' = <<>>
            /\ current_hexes' = {}
            /\ local_aircraft_cache' = local_aircraft_cache
       /\ (pc = "merge" /\ FetchFailed(lastCall.event)) =>
            /\ all_aircraft = <<>>
            /\ Keys(Cache') = Keys(Cache) \ ExpiredKeys(local_aircraft_cache, now)
            /\ \A h \in Keys(Cache') : ValueOf(Cache', h) = ValueOf(Cache, h)
            /\ pc' = IF Len(Cache') > 0 /\ (IntervalElapsed \/ CacheFull \/ BaselineDue)
                     THEN "upload" ELSE "sleep"
       /\ (pc = "upload" /\ FetchFailed(lastCall.event)) => pc' \in {"upload", "sleep"}
      ]_vars

\* A cycle whose fetch failed has reached its sleep with an aircraft of an
\* earlier cycle still cached.
C17_Witness ==
    /\ pc = "sleep"
    /\ FetchFailed(lastCall.event)
    /\ current_time = now
    /\ Cache # <<>>
    /\ previously_seen_hexes = {}

\* C18 (as claimed): once the expiry purge of a cycle has run, no aircraft is
\* cached that the feed last reported more than CACHE_TTL_SECONDS ago,
\* whether or not commits succeeded since.
C18_ExpiryNotPostponed ==
    [][Deciding =>
         \A h \in Keys(Cache') : now - last_seen[h] <= CACHE_TTL_SECONDS]_vars

\* The store has been unavailable so far: a commit step has failed and none
\* has succeeded, so nothing that is cached has been committed.
StoreDown == ~first_scan_complete /\ notifications > 0

\* C19 (as claimed): while the store is unavailable, a step removes a cached
\* aircraft only if it has expired, and every aircraft it keeps still has
\* its first_seen and, if it was pending as a new sighting, its
\* is_new_sighting = true, whatever the feed delivers.
C19_RetainedWhileStoreDown ==
    [][(StoreDown /\ ~first_scan_complete') =>
         \A h \in Keys(Cache) :
            ~IsExpired(local_aircraft_cache, h, now) =>
               /\ h \in Keys(Cache')
               /\ ValueOf(Cache', h).first_seen = ValueOf(Cache, h).first_seen
               /\ ValueOf(Cache, h).is_new_sighting => ValueOf(Cache', h).is_new_sighting
      ]_vars

\* ------------------------------------------------------------------ lifecycle claims
InLoop == pc \in {"fetch", "merge", "upload", "sleep"}

\* What items() hands out at time `now`: the entries that have not expired.
Unexpired == PopAll(Cache, ExpiredKeys(local_aircraft_cache, now))

C20_CaughtThenCooldown ==
    [][/\ (InLoop /\ ~InLoop') => shutdown_event
       /\ exceptions' # exceptions =>
            /\ pc' \in {"fetch", "sleep"}
            /\ ~shutdown_event => (now' >= now + COOLDOWN \/ pc' = "sleep")
      ]_vars

\* ------------------------------------------------------------------ C27
\* The record a successful commit leaves for a cached record.
Committed(e) == [e EXCEPT !.v.is_new_sighting = FALSE]

\* C27: a successful commit changes nothing in the cache except
\* is_new_sighting: the cached identifiers (the unexpired entries, the only
\* ones the cache ever shows) and their order are the same after the
\* post-commit loop as before it, and every record is the one before it with
\* the flag reset, first_seen included; also at capacity, where every put of
\* the loop evicts the very entry it puts back.
C27_CommitKeepsCache ==
    [][(pc = "upload" /\ upload_result' = "ok") =>
         /\ Keys(Cache') = Keys(Unexpired)
         /\ Len(Cache') = Len(Unexpired)
         /\ \A i \in 1..Len(Unexpired) : Cache'[i] = Committed(Unexpired[i])
      ]_vars

\* A commit has succeeded with the cache exactly at capacity, on an aircraft
\* first seen in an earlier cycle.
C27_Witness ==
    /\ pc = "sleep"
    /\ upload_result = "ok"
    /\ Len(Cache) = MAX_CACHE_SIZE
    /\ \A i \in 1..Len(Cache) : ~Cache[i].v.is_new_sighting
    /\ \E i \in 1..Len(Cache) : Cache[i].v.first_seen < current_time

\* ------------------------------------------------------------------ C28
\* C28 (as claimed): while the breaker is HALF_OPEN the call that moved it
\* there is still executing the wrapped operation (any call that ends leaves
\* the state CLOSED or OPEN), and no other call is let through to the
\* wrapped operation.
C28_SingleTrial ==
    [][Breaker.state = "HALF_OPEN" => lastCall'.event # "invoked"]_vars

\* ------------------------------------------------------------------ C29
\* C29: whenever the wrapped operation was invoked and raises, the failure is
\* recorded (failure count + 1, last-failure time = the time of the failure)
\* and call() raises that same error to its caller: never a normal return,
\* never another error.
C29_FailurePropagates ==
    [][lastCall'.event = "failure" =>
         /\ calls[lastCall'.thread] = "func"
         /\ lastCall'.error \in Errors
         /\ lastCall'.propagated = lastCall'.error
         /\ Breaker'.failure_count = Breaker.failure_count + 1
         /\ Breaker'.last_failure_time = now
      ]_vars

\* A wrapped operation has raised while another failure was already on
\* record, and its error went to the caller.
C29_Witness ==
    /\ lastCall.event = "failure"
    /\ lastCall.propagated = "ValueError"
    /\ Breaker.failure_count = 2
    /\ Breaker.last_failure_time = now
    /\ calls[lastCall.thread] = "idle"

\* ------------------------------------------------------------------ C30
\* C30 (as claimed): a cache constructed with max_size = 0 enforces the
\* capacity 0: every put ends normally having evicted whatever was cached, so
\* that the key just put is the only entry.
C30_ZeroCapacityEnforced ==
    (lastOp.configured.max_size = 0 /\ lastOp.op = "put") =>
        /\ local_aircraft_cache.max_size = 0
        /\ Keys(Cache) = {lastOp.key}

\* ------------------------------------------------------------------ C25
\* The record of aircraft h in the snapshot being committed.
Uploaded(h) == ValueOf(upload_data, h)

\* C25: a committed upsert changes the stored seen-count by exactly: row
\* absent -> inserted with seen-count 1, whichever statement the record went
\* through; row present and is_new_sighting -> seen-count + 1; row present
\* and not is_new_sighting -> seen-count unchanged. Rows of aircraft that
\* are not in the snapshot keep their seen-count.
C25_SeenCountDelta ==
    [][(pc = "upload" /\ upload_result' = "ok") =>
         \A h \in FeedHexes :
            SeenCount(tracked_aircraft', h) =
               IF h \notin Keys(upload_data) THEN SeenCount(tracked_aircraft, h)
               ELSE IF SeenCount(tracked_aircraft, h) = 0 THEN 1
               ELSE IF Uploaded(h).is_new_sighting THEN SeenCount(tracked_aircraft, h) + 1
               ELSE SeenCount(tracked_aircraft, h)
      ]_vars

\* All three cases have been committed: a row counted twice (inserted, then
\* incremented by a new sighting), and a commit just done that left the
\* count of a continuing aircraft at 1.
C25_Witness ==
    /\ pc = "sleep"
    /\ upload_result = "ok"
    /\ \E h \in FeedHexes : SeenCount(tracked_aircraft, h) = 2
    /\ \E h \in Keys(Cache) :
          /\ SeenCount(tracked_aircraft, h) = 1
          /\ ValueOf(Cache, h).first_seen < current_time

\* ------------------------------------------------------------------ C26
\* C26: the stored first_seen of an aircraft is written by the upsert that
\* inserts its row (the first_seen of the record committed then) and no later
\* step changes it, whatever first_seen the cache holds for the aircraft by
\* then.
C26_StoredFirstSeenKept ==
    [][\A h \in FeedHexes :
          IF SeenCount(tracked_aircraft, h) > 0
          THEN tracked_aircraft'[h].first_seen = tracked_aircraft[h].first_seen
          ELSE SeenCount(tracked_aircraft', h) > 0 =>
                  /\ pc = "upload" /\ h \in Keys(upload_data)
                  /\ tracked_aircraft'[h].first_seen = Uploaded(h).first_seen
      ]_vars

\* A commit has just upserted an aircraft whose row was inserted earlier in
\* this run and whose cached first_seen was stamped anew since.
C26_Witness ==
    /\ pc = "sleep"
    /\ upload_result = "ok"
    /\ \E h \in Keys(Cache) :
          /\ SeenCount(tracked_aircraft, h) > 1
          /\ tracked_aircraft[h].first_seen > 0
          /\ ValueOf(Cache, h).first_seen > tracked_aircraft[h].first_seen

\* ------------------------------------------------------------------ C24
\* A use of get_connection by thread th ends with this step.
ScopeEnds(th) == scope[th].pc # "idle" /\ scope'[th].pc = "idle"

\* C24: each execution of database_operation is one transaction.  The table
\* changes only in the step that commits, and then to the upsert of every
\* record of the snapshot; an execution that ends with an error (raised by
\* any batch of either partition, before the first, or by the commit) leaves
\* the table as it found it, and one that returns leaves the upsert of every
\* record: no table with part of the snapshot applied is ever committed.
C24_CommitIsAtomic ==
    [][/\ tracked_aircraft' # tracked_aircraft =>
             \E th \in Threads :
                /\ scope[th].pc = "block" /\ scope'[th].pc = "finally"
                /\ tracked_aircraft' = database_operation(scope[th].before, records, now)
       /\ \A th \in Threads :
             ScopeEnds(th) =>
                tracked_aircraft' =
                   IF scope'[th].outcome = "returned"
                   THEN database_operation(scope[th].before, records, now)
                   ELSE scope[th].before
      ]_vars

\* A statement has failed after one batch was executed and another was not,
\* and the rollback has failed too: the transaction holds part of the
\* snapshot, the table none of it.
C24_Witness ==
    \E th \in Threads :
       /\ scope[th].pc = "finally"
       /\ scope[th].error # ""
       /\ scope[th].rollback = "failed"
       /\ scope[th].todo # <<>>
       /\ work # tracked_aircraft
       /\ tracked_aircraft = scope[th].before

\* ------------------------------------------------------------------ C23
\* Threads inside `with get_connection()`, holding a connection.
InScope == {th \in Threads : scope[th].pc # "idle"}

RefreshEnds(th) ==
    /\ lookups'[th].pc = "idle"
    /\ \/ lookups[th].pc = "fetch"
       \/ lookups[th].pc = "lock" /\ needs_refresh(Registry, now) /\ ~Registry.loading

\* C21: a refresh either replaces the whole map with the fetched dataset or
\* leaves it exactly as it was.  After a failed refresh (fetch error, breaker
\* open, no usable row) the map, its time stamp and so the answer to every
\* lookup are those from before the attempt; after any other the map is the
\* fetched dataset and nothing else.  The map changes in no other step, and
\* every call returns the record its hex has in the map as a whole, old or
\* new.
C21_RefreshAllOrNothing ==
    [][\A th \in Threads :
          /\ RefreshEnds(th) =>
                IF last_refresh'.new_data = NoData
                THEN /\ Registry'.aircraft_data = Registry.aircraft_data
                     /\ Registry'.last_update_time = Registry.last_update_time
                     /\ \A h \in LookupHexes : lookup(Registry', h) = lookup(Registry, h)
                ELSE /\ last_refresh'.outcome = "loaded"
                     /\ Registry'.aircraft_data = last_refresh'.new_data
          /\ (\A other \in Threads : ~RefreshEnds(other)) =>
                Registry'.aircraft_data = Registry.aircraft_data
          /\ (lookups[th].pc # "idle" /\ lookups'[th].pc = "idle") =>
                lookups'[th].ret = lookup(Registry', lookups[th].hex)
      ]_vars

\* The breaker has just refused the refresh of a stale map after failed
\* downloads, and the caller got the record of the old map.
C21_Witness ==
    /\ last_refresh.outcome = "unavailable"
    /\ Registry.aircraft_data # NoData
    /\ now - Registry.last_update_time > AIRCRAFT_CSV_TTL_SECONDS
    /\ lookups[last_refresh.thread].pc = "idle"
    /\ lookups[last_refresh.thread].ret # NoInfo

\* ------------------------------------------------------------------ C22
\* A refresh by another thread is in flight while thread th has called
\* get_aircraft_info and not yet returned.
RefreshInFlightFor(th) ==
    /\ lookups[th].pc = "lock"
    /\ \E other \in Threads \ {th} : lookups[other].pc = "fetch"

\* C22 (as claimed): while one caller's refresh is in flight, a call of
\* another thread can go on at once to its lookup in the stale map: it does
\* not have to wait for the download to end.
C22_NoWaitDuringRefresh ==
    \A th \in Threads : RefreshInFlightFor(th) => ENABLED EnterLock(th)

\* ------------------------------------------------------------------ TTLCache, both maps
\* C39: in every state reachable by any interleaving of cache operations, the
\* value map and the timestamp map have exactly the same key set: no entry
\* without a timestamp, no timestamp without an entry.
C39_SameKeySet == Keys(Cache) = DOMAIN Timestamps

\* An operation removed an entry from a cache that still holds another one.
C39_Witness ==
    /\ lastOp.op \in {"put", "get", "len", "items", "cleanup_expired"}
    /\ lastOp.removed # {}
    /\ Cache # <<>>
    /\ Keys(Cache) = DOMAIN Timestamps

\* C33 (as claimed): put(k, v) for a key k that is cached and unexpired, with
\* no other entry expired, leaves the set of cached keys unchanged: an
\* overwrite never evicts an entry, also when the cache is exactly at capacity.
C33_OverwriteEvictsNothing ==
    [][\A key \in Hexes :
        (/\ lastOp'.op = "put" /\ lastOp'.key = key
         /\ key \in Keys(Cache)
         /\ ExpiredKeys(local_aircraft_cache, now) = {}) =>
            /\ Keys(Cache') = Keys(Cache)
            /\ lastOp'.removed = {}
      ]_vars

\* ------------------------------------------------------------------ CircuitBreaker, state and count
\* C32: in every reachable state of a circuit breaker, under any interleaving
\* of concurrent calls, a CLOSED breaker has counted fewer failures than its
\* threshold, and an OPEN or HALF_OPEN breaker has counted at least threshold
\* failures and has a recorded last-failure time.
C32_StateMatchesCount ==
    /\ Breaker.state = "CLOSED" => Breaker.failure_count < Breaker.failure_threshold
    /\ Breaker.state \in {"OPEN", "HALF_OPEN"} =>
          /\ Breaker.failure_count >= Breaker.failure_threshold
          /\ Breaker.last_failure_time # 0

\* Two calls are in their wrapped operations at once, one of them the trial
\* call of a HALF_OPEN breaker.
C32_Witness ==
    /\ Breaker.state = "HALF_OPEN"
    /\ \A th \in Threads : calls[th] = "func"
    /\ Breaker.failure_count >= Breaker.failure_threshold

\* ------------------------------------------------------------------ ADSBLogger, cycle by cycle
\* C34: the step that ends the merge of a cycle sets previously_seen_hexes to
\* exactly the hex codes of the aircraft that cycle fetched, and to the empty
\* set when the fetch of the cycle failed; so in the first cycle that fetches
\* aircraft after a failed fetch every pass of the merge loop caches its
\* aircraft as a new sighting, also an aircraft that was cached all along.
C34_SeenSetFollowsFetch ==
    [][/\ Deciding =>
            /\ previously_seen_hexes' = observed
            /\ FetchFailed(lastCall.event) => previously_seen_hexes' = {}
       /\ (pc = "merge" /\ all_aircraft # <<>> /\ FetchFailed(fetched_before)) =>
            /\ Head(all_aircraft) \in Keys(Cache')
            /\ ValueOf(Cache', Head(all_aircraft)).is_new_sighting
      ]_vars

\* After a cycle whose fetch failed, an aircraft cached since an earlier cycle
\* and fetched at both sides of the failure has been merged as a new sighting.
C34_Witness ==
    /\ pc = "merge"
    /\ FetchFailed(fetched_before)
    /\ previously_seen_hexes = {}
    /\ \E h \in Keys(Cache) :
          /\ h \in observed
          /\ Timestamps[h] = now
          /\ ValueOf(Cache, h).first_seen < now
          /\ last_seen[h] = now
          /\ ValueOf(Cache, h).is_new_sighting

\* C35: the snapshot a commit step is given holds every unexpired entry of
\* the cache, observed or not since the last successful commit; and the step
\* that ends a commit step with success leaves a row with last_seen = now for
\* every hex of the snapshot, also one the feed no longer reports.
C35_SnapshotIsWholeCache ==
    [][/\ (pc = "merge" /\ pc' = "upload") => upload_data' = Unexpired
       /\ (pc = "upload" /\ upload_result' = "ok") =>
            \A h \in Keys(upload_data) :
               /\ SeenCount(tracked_aircraft', h) >= 1
               /\ tracked_aircraft'[h].last_seen = now
      ]_vars

\* A commit has just succeeded, after an earlier one that did, and stamped the
\* row of an aircraft that neither this cycle nor the one before fetched.
C35_Witness ==
    /\ pc = "sleep"
    /\ upload_result = "ok"
    /\ notifications = 0
    /\ \E h \in FeedHexes \ (observed \cup observed_before) :
          /\ 0 < last_seen[h] /\ last_seen[h] < current_time
          /\ SeenCount(tracked_aircraft, h) >= 1
          /\ tracked_aircraft[h].last_seen = now

\* cache_size as len(self.local_aircraft_cache) reports it at this moment.
CacheSize == len(local_aircraft_cache, now).ret

\* C36: the step that ends a commit step with success leaves the cache size
\* as len() reports it no smaller than before, so a cache that was at capacity
\* is still at capacity right after the commit; and every cycle that ends its
\* expire step with the cache at capacity starts a commit step, whether or
\* not the upload interval has elapsed.
C36_FullCacheCommitsEveryCycle ==
    [][/\ (pc = "upload" /\ upload_result' = "ok") =>
            /\ CacheSize' >= CacheSize
            /\ CacheSize >= MAX_CACHE_SIZE => CacheSize' >= MAX_CACHE_SIZE
       /\ (Deciding /\ CacheSize' >= MAX_CACHE_SIZE) => pc' = "upload"
      ]_vars

\* A forced commit step has started in the cycle right after a commit that
\* succeeded on the full cache, long before the upload interval is over.
C36_Witness ==
    /\ pc = "upload"
    /\ first_scan_complete
    /\ Len(upload_data) >= MAX_CACHE_SIZE
    /\ CacheSize >= MAX_CACHE_SIZE
    /\ last_summary_upload_time = current_time - CYCLE_SLEEP
    /\ ~IntervalElapsed
    /\ Cardinality({h \in FeedHexes :
                       tracked_aircraft[h].last_seen >= last_summary_upload_time})
           >= MAX_CACHE_SIZE

\* C37: as long as first_scan_complete is false, every cycle that ends its
\* expire step with a non-empty cache starts a commit step, whatever the
\* upload interval; first_scan_complete changes only from false to true, only
\* in the step that ends a commit step with success, and every such step
\* leaves it true.
C37_BaselineUntilFirstCommit ==
    [][/\ (Deciding /\ ~first_scan_complete /\ CacheSize' > 0) => pc' = "upload"
       /\ first_scan_complete' # first_scan_complete =>
            /\ first_scan_complete'
            /\ pc = "upload" /\ upload_result' = "ok"
       /\ (pc = "upload" /\ upload_result' = "ok") => first_scan_complete'
      ]_vars

\* After a commit step that gave up, a later cycle has started the baseline
\* commit again with the interval not elapsed and the cache below capacity.
C37_Witness ==
    /\ pc = "upload"
    /\ ~first_scan_complete
    /\ notifications > 0
    /\ current_time > last_summary_upload_time
    /\ ~IntervalElapsed
    /\ 0 < Len(upload_data) /\ Len(upload_data) < MAX_CACHE_SIZE

\* ------------------------------------------------------------------ registry, failing source
RegistryBreaker == Registry.csv_circuit_breaker
RefreshFailed == last_refresh.outcome \in {"error", "unavailable"}

\* C38: while fetch_csv keeps raising, a failed refresh leaves the map and
\* last_update_time as they were, so a refresh stays due and every call of
\* get_aircraft_info for a non-empty hex_code goes to the registry breaker
\* again; but fetch_csv is invoked at most failure_threshold times before the
\* breaker opens, afterwards at most once per elapsed timeout, and never by
\* two calls at once, however many calls are made.
C38_BreakerBoundsFetches ==
    [][/\ (RefreshFailed' /\ last_refresh' # last_refresh) =>
            /\ Registry'.aircraft_data = Registry.aircraft_data
            /\ Registry'.last_update_time = Registry.last_update_time
       /\ RefreshFailed' => needs_refresh(Registry', now')
       /\ \A th \in Threads :
            (RefreshFailed /\ lookups[th].pc = "lock" /\ lookups'[th].pc # "lock") =>
                \/ lookups'[th].pc = "fetch"
                \/ /\ last_refresh'.outcome = "unavailable"
                   /\ last_refresh'.thread = th
       /\ fetches'.closed <= CSV_FAILURE_THRESHOLD
       /\ fetches'.trials >= 1 =>
            now' - fetches'.opened_at > fetches'.trials * CSV_TIMEOUT
       /\ Cardinality({th \in Threads : lookups'[th].pc = "fetch"}) <= 1
      ]_vars

\* The breaker has opened after failure_threshold failed fetches, refused a
\* call, and after the timeout let one trial fetch through, which is running
\* while the other thread's call waits.
C38_Witness ==
    /\ fetches.closed = CSV_FAILURE_THRESHOLD
    /\ fetches.trials = 1
    /\ RegistryBreaker.state = "HALF_OPEN"
    /\ \E th \in Threads : lookups[th].pc = "fetch"
    /\ \E th \in Threads : lookups[th].pc = "lock"
    /\ last_refresh.outcome = "unavailable"
    /\ Registry.last_update_time = 0

\* ------------------------------------------------------------------ ADSBLogger, termination
\* The longest the commit steps still to come can sleep between their
\* attempts: the step of the cycle in progress, if any, and the final one.
RetryTimeLeft ==
    CASE pc = "merge" -> 2 * MAX_RETRY_ATTEMPTS * RETRY_DELAY
      [] pc = "upload" -> (2 * MAX_RETRY_ATTEMPTS - retry_count) * RETRY_DELAY
      [] pc = "final_upload" -> (MAX_RETRY_ATTEMPTS - retry_count) * RETRY_DELAY
      [] OTHER -> MAX_RETRY_ATTEMPTS * RETRY_DELAY

\* The model's clock, which stops at MaxRunTime, has room for these sleeps.
ClockAllows == now + RetryTimeLeft <= MaxRunTime

\* C31: once shutdown_event is set, no further slice of the sleep between two
\* cycles is slept, no fetch is made (the breaker of the feed sees no call),
\* no commit step executes database_operation more than
\* MAX_RETRY_ATTEMPTS + 1 times, and run eventually returns, also when every
\* execution of database_operation fails.
C31_ShutdownTerminates ==
    /\ [][shutdown_event =>
            /\ pc = "sleep" => now' = now /\ pc' # "sleep"
            /\ ~(pc = "fetch" /\ pc' = "merge")
            /\ lastCall' = lastCall
            /\ attempts' <= MAX_RETRY_ATTEMPTS + 1
         ]_vars
    /\ (shutdown_event /\ ClockAllows) ~> (pc = "done")

\* run has returned after a signal that came one slice into the sleep of a
\* cycle whose commit had succeeded at once: the final commit step used all
\* its attempts, RETRY_DELAY apart, and gave up.
C31_Witness ==
    /\ pc = "done"
    /\ shutdown_event
    /\ upload_result = "failed"
    /\ attempts = MAX_RETRY_ATTEMPTS + 1
    /\ first_scan_complete
    /\ \E h \in FeedHexes : tracked_aircraft[h].last_seen = current_time
    /\ now = current_time + 1 + MAX_RETRY_ATTEMPTS * RETRY_DELAY

====
